---------------------------- MODULE Spec2Model ----------------------------
(***************************************************************************)
(* Federated document search of IPMagiXApp: search_documents in            *)
(* open_ai_azure.py resolves the documents to search, fans one             *)
(* retrieval-augmented completion call out per document on a thread pool,  *)
(* collects the completions as they finish and aggregates them into one    *)
(* answer with a source map.                                               *)
(*                                                                         *)
(* Texts are sequences of tokens (a word, a [docK] marker, a phrase, white *)
(* space); citation titles are sequences of characters; document ids and   *)
(* source-map keys are strings.                                            *)
(***************************************************************************)
EXTENDS Integers, Sequences, FiniteSets, TLC

(***************************************************************************)
(* Bounds of the exploration.                                              *)
(***************************************************************************)
MaxDocs == 3          \* longest list of document ids of one request
MaxTextLen == 2       \* tokens in one answer text (single-document requests)
MaxCitations == 2     \* citations in one choice (single-document requests)
WideDocs == 6         \* a request with more document ids than pool threads
MaxManagerCalls == 4  \* calls of DBConnectionManager class methods in one run
MaxAssignedId == 120  \* largest id the document table assigns to an upload
MaxPolledId == 2      \* largest id of an upload whose status poller is followed
MaxRequests == 2      \* concurrent requests to /api/index-documents
MaxSqlPieces == 3     \* pieces a generated SQL text is put together from

(***************************************************************************)
(* Python values.                                                          *)
(***************************************************************************)
NoneId == "None"                       \* compound_id = None
EmptyMap == [k \in {} |-> <<>>]        \* {}

Put(m, k, v) == [x \in (DOMAIN m) \cup {k} |-> IF x = k THEN v ELSE m[x]]

SeqsUpTo(S, n) == UNION {[1..k -> S] : k \in 0..n}

(***************************************************************************)
(* Tokens of an answer text.                                               *)
(***************************************************************************)
Markers == {"[doc0]", "[doc1]", "[doc2]"}
Whitespace == {" ", "\n\n"}

\* int(match) for a token matching \[doc(\d+)\]
MarkerNumber(tok) ==
  CASE tok = "[doc0]" -> 0
    [] tok = "[doc1]" -> 1
    [] tok = "[doc2]" -> 2

\* str.lower() of a token
Lower(tok) ==
  CASE tok = "NOT MENTIONED IN" -> "not mentioned in"
    [] tok = "No Data On" -> "no data on"
    [] tok = "Answer" -> "answer"
    [] OTHER -> tok

negative_phrases ==
  { "not found in the retrieved data",
    "couldn't find relevant information",
    "don't have information about",
    "no information available",
    "no relevant information",
    "no data on",
    "not mentioned in" }

\* any(phrase.lower() in content.lower() for phrase in negative_phrases)
is_negative_response(content) ==
  \E i \in 1..Len(content) : Lower(content[i]) \in negative_phrases

\* re.findall(r'\[doc(\d+)\]', text) converted to integers, in text order
RECURSIVE doc_numbers_of(_)
doc_numbers_of(text) ==
  IF text = <<>> THEN <<>>
  ELSE (IF Head(text) \in Markers THEN <<MarkerNumber(Head(text))>> ELSE <<>>)
       \o doc_numbers_of(Tail(text))

extract_doc_numbers(text) ==
  [doc_numbers |-> doc_numbers_of(text), has_doc_pattern |-> doc_numbers_of(text) # <<>>]

(***************************************************************************)
(* Citation titles.                                                        *)
(***************************************************************************)
HasUnderscore(title) == \E i \in 1..Len(title) : title[i] = "_"

FirstUnderscore(title) ==
  CHOOSE i \in 1..Len(title) :
    title[i] = "_" /\ \A j \in 1..(i - 1) : title[j] # "_"

strip_to_last_underscore(title) ==
  IF title # <<>> /\ HasUnderscore(title)
  THEN SubSeq(title, 1 + CHOOSE i \in 1..Len(title) :
                           title[i] = "_" /\ \A j \in (i + 1)..Len(title) : title[j] # "_",
              Len(title))
  ELSE title

\* file_title.split('_', 1)[1] when the title holds an underscore
strip_prefix(title) ==
  IF title # <<>> /\ HasUnderscore(title)
  THEN SubSeq(title, FirstUnderscore(title) + 1, Len(title))
  ELSE title

source_key_number_only(doc_id, number) == ToString(number)

source_key_unseparated(doc_id, number) == "doc_" \o ToString(number)

\* f"{doc_id}_{number}"
source_key(doc_id, number) == doc_id \o "_" \o ToString(number)


(***************************************************************************)
(* Completions.  A per-document call yields None (the call raised and      *)
(* search_single_index swallowed it) or a completion; a completion may     *)
(* fail to parse, and a choice may have a structure the loop body raises   *)
(* on.                                                                     *)
(***************************************************************************)
NoCompletion == [kind |-> "None"]
Pending == <<NoneId, [kind |-> "pending"]>>

Completion(parseable, choices) ==
  [kind |-> "completion", parseable |-> parseable, choices |-> choices]

Choice(content, citations) ==
  [wellformed |-> TRUE, content |-> content, citations |-> citations]

BadChoice == [wellformed |-> FALSE, content |-> <<>>, citations |-> <<>>]

FallbackNoDocuments == <<"I don't have any relevant documents to search through.">>
FallbackNoResults == <<"I couldn't find relevant information in the documents.">>
FallbackNoInformation ==
  <<"I don't have information about this topic in the knowledge base. Please try a different question.">>

(***************************************************************************)
(* The aggregation loop of search_documents.                               *)
(***************************************************************************)
RECURSIVE add_sources_unchecked(_, _, _, _)
add_sources_unchecked(sources, doc_id, numbers, all_citations) ==
  IF numbers = <<>> \/ all_citations = <<>> THEN sources
  ELSE LET number == Head(numbers)
           index == (number - 1) % Len(all_citations)
       IN add_sources_unchecked(
            Put(sources, source_key(doc_id, number),
                strip_prefix(all_citations[index + 1])),
            doc_id, Tail(numbers), all_citations)

\* for number in doc_numbers: ... all_sources[source_key] = file_title
RECURSIVE add_sources(_, _, _, _)
add_sources(sources, doc_id, numbers, all_citations) ==
  IF numbers = <<>> THEN sources
  ELSE LET number == Head(numbers)
           index == number - 1
           next == IF 0 <= index /\ index < Len(all_citations)
                   THEN Put(sources, source_key(doc_id, number),
                            strip_prefix(all_citations[index + 1]))
                   ELSE sources
       IN add_sources(next, doc_id, Tail(numbers), all_citations)

contributes_despite_negative(has_citations, negative) == has_citations

\* if has_citations and not is_negative_response
contributes(has_citations, negative) == has_citations /\ ~negative

\* the body of "for choice in response_json.get('choices', [])"
process_choice(acc, doc_id, choice) ==
  LET content == choice.content
      extracted == extract_doc_numbers(content)
      negative == is_negative_response(content)
      has_citations == extracted.has_doc_pattern /\ choice.citations # <<>>
      sources == IF has_citations
                 THEN add_sources(acc.all_sources, doc_id,
                                     extracted.doc_numbers, choice.citations)
                 ELSE acc.all_sources
  IN IF contributes(has_citations, negative)
     THEN [all_sources |-> sources,
           valid_results |-> Append(acc.valid_results, <<doc_id, content>>),
           combined_answer |-> acc.combined_answer \o content \o <<"\n\n">>]
     ELSE [acc EXCEPT !.all_sources = sources]

RECURSIVE process_choices_skipping(_, _, _)
process_choices_skipping(acc, doc_id, choices) ==
  IF choices = <<>> THEN acc
  ELSE IF ~Head(choices).wellformed
       THEN process_choices_skipping(acc, doc_id, Tail(choices))
  ELSE process_choices_skipping(process_choice(acc, doc_id, Head(choices)),
                                doc_id, Tail(choices))

\* the choices loop; a choice the body raises on ends the loop, what the
\* earlier choices stored stays
RECURSIVE process_choices(_, _, _)
process_choices(acc, doc_id, choices) ==
  IF choices = <<>> THEN acc
  ELSE IF ~Head(choices).wellformed THEN acc
  ELSE process_choices(process_choice(acc, doc_id, Head(choices)), doc_id, Tail(choices))

\* the try body for one (doc_id, completion) of all_results
process_result(acc, doc_id, completion) ==
  IF ~completion.parseable THEN acc
  ELSE process_choices(acc, doc_id, completion.choices)

EmptyAcc == [all_sources |-> EmptyMap, valid_results |-> <<>>, combined_answer |-> <<>>]

\* for doc_id, completion in all_results
RECURSIVE process_results(_, _)
process_results(acc, results) ==
  IF results = <<>> THEN acc
  ELSE process_results(process_result(acc, Head(results)[1], Head(results)[2]),
                       Tail(results))

\* str.strip() on a token sequence
RECURSIVE lstrip(_)
lstrip(text) ==
  IF text # <<>> /\ Head(text) \in Whitespace THEN lstrip(Tail(text)) ELSE text

RECURSIVE rstrip(_)
rstrip(text) ==
  IF text # <<>> /\ text[Len(text)] \in Whitespace
  THEN rstrip(SubSeq(text, 1, Len(text) - 1))
  ELSE text

strip(text) == rstrip(lstrip(text))

\* lines 134-224: the pair returned once all_results is not empty
aggregate(results) ==
  LET acc == process_results(EmptyAcc, results)
  IN [answer |-> IF acc.valid_results # <<>>
                 THEN strip(acc.combined_answer)
                 ELSE FallbackNoInformation,
      sources |-> acc.all_sources]


(***************************************************************************)
(* The document table ipx_documents and the requests explored.             *)
(***************************************************************************)
Statuses == {"processing", "indexed", "warning", "failed", "timeout"}

Tenant == "T1"          \* the tenant of the requests
OtherTenant == "T2"     \* a tenant that never asks

DocumentIds == 1..MaxDocs

\* the last row belongs to the other tenant
OwnerOf(id) == IF id = MaxDocs THEN OtherTenant ELSE Tenant

DocumentTables ==
  { [id \in DocumentIds |-> [compound_id |-> OwnerOf(id), status |-> st[id]]] :
      st \in { f \in [DocumentIds -> Statuses] :
                 /\ f[1] \in {"indexed", "failed"}
                 /\ f[MaxDocs] = "indexed"
                 /\ \A id \in DocumentIds : (id > 2 /\ id < MaxDocs) => f[id] = "indexed" } }

\* the table of the requests that name their documents: a row still
\* processing and a row of the other tenant are among the ids they name
DefaultDocuments ==
  [id \in DocumentIds |->
     [compound_id |-> OwnerOf(id),
      status |-> IF id = 2 THEN "processing" ELSE "indexed"]]

\* str(result['id'])
IdString(id) == ToString(id)

ExplicitLists ==
  { [i \in 1..n |-> IdString(i)] : n \in 1..MaxDocs } \cup { <<"2", "2">> }
  \cup { [i \in 1..WideDocs |-> IdString(i)] }

\* the doc_ids argument: <<>> is None, <<l>> is the list l
DocIdsArguments == { <<>>, << <<>> >> } \cup { <<l>> : l \in ExplicitLists }

CompoundArguments == { NoneId, "", Tenant }

Truthy(compound_id) == compound_id # NoneId /\ compound_id # ""

(***************************************************************************)
(* What the completion service may answer, by the size of the request.     *)
(***************************************************************************)
RichTokens == {"Answer", "[doc0]", "[doc1]", "[doc2]", "NOT MENTIONED IN", "no data on", " "}

RichTitles == { <<"u", "_", "a">>, <<"b">>, <<"u", "_", "a", "_", "b">> }

RichChoices ==
  { Choice(t, c) : t \in SeqsUpTo(RichTokens, MaxTextLen),
                   c \in SeqsUpTo(RichTitles, MaxCitations) }

PairedChoices ==
  { Choice(<<"[doc1]">>, << <<"u", "_", "a">> >>),
    Choice(<<"[doc2]", "No Data On">>, << <<"b">>, <<"c">> >>),
    Choice(<<"Answer">>, <<>>),
    BadChoice }

MultiChoiceCompletions ==
  { Completion(TRUE, <<c1, c2>>) : c1 \in PairedChoices, c2 \in PairedChoices }

MediumChoices ==
  { Choice(t, c) :
      t \in { <<"[doc1]">>, <<"Answer", "[doc1]">>, <<"[doc2]">>,
              <<"[doc1]", "NOT MENTIONED IN">>, <<"no data on">>, <<"Answer">> },
      c \in { <<>>, << <<"u", "_", "a">> >>, << <<"b">> >>,
              << <<"u", "_", "a">>, <<"b">> >> } }

SmallChoices ==
  { Choice(t, c) :
      t \in { <<"[doc1]">>, <<"[doc1]", "NOT MENTIONED IN">>, <<"Answer">> },
      c \in { <<>>, << <<"u", "_", "a">> >> } }

TinyChoices ==
  { Choice(<<"[doc1]">>, << <<"u", "_", "a">> >>),
    Choice(<<"[doc1]", "NOT MENTIONED IN">>, << <<"u", "_", "a">> >>) }

Failures == { NoCompletion, Completion(FALSE, <<>>) }

\* the calls of the wide request all raise: it is there for the thread pool
Responses(n) ==
  IF n >= WideDocs THEN { NoCompletion }
  ELSE
  Failures \cup
  (CASE n <= 1 -> { Completion(TRUE, <<c>>) : c \in RichChoices }
                  \cup MultiChoiceCompletions \cup { Completion(TRUE, <<>>) }
     [] n = 2 -> { Completion(TRUE, <<c>>) : c \in MediumChoices \cup {BadChoice} }
     [] n = 3 -> { Completion(TRUE, <<c>>) : c \in SmallChoices }
     [] OTHER -> { Completion(TRUE, <<c>>) : c \in TinyChoices })

(***************************************************************************)
(* State.                                                                  *)
(***************************************************************************)
VARIABLES
  documents,        \* ipx_documents: id -> [compound_id, status]
  arg_doc_ids,      \* the doc_ids argument of search_documents
  arg_compound_id,  \* the compound_id argument
  pc,               \* where search_documents is
  doc_ids,          \* the resolved list of document ids
  status,           \* per submitted call: queued, running, done, collected
  futures,          \* per submitted call: what search_single_index returned
  all_results,      \* the (doc_id, completion) pairs collected
  result,           \* the (answer, sources) pair returned
  db_queries,       \* selects issued on ipx_documents
  calls,            \* per submitted call: completion requests issued
  loop_runs,        \* iterations of the aggregation loop executed
  connection_string, \* DBConnectionManager._connection_string
  instance,         \* DBConnectionManager._instance: 0 is None, n the n-th object
  objects,          \* DBConnectionManager objects constructed
  manager_log,      \* the initialize and get_instance calls made, with outcomes
  endpoint,         \* the route of the HTTP request being handled
  header,           \* its X-Compound-ID header
  body,             \* what its body or form holds
  http_pc,          \* where its handler is
  position,         \* the step of the handler to run next
  handler_compound, \* the handler's compound_id
  response,         \* the response sent
  db_reads,         \* selects issued for the request
  db_writes,        \* inserts issued for the request
  uploads,          \* upload_file calls made for the request
  searches,         \* search_documents calls made for the request
  inserted_id,      \* the id the document table gave the uploaded document
  indexing_pc,      \* where the upload and its indexing thread are
  created_index,    \* the name of the search index created
  recorded_index,   \* ipx_documents.index_name of the document
  queried_index,    \* the index name a search of the document queried
  doc_status,       \* ipx_documents.status of the document
  status_writes,    \* the UPDATEs of that column made so far, in order
  indexer_runs,     \* run_indexer calls that went through
  polls,            \* get_indexer_status calls check_indexer_status made
  observed,         \* what its last poll showed
  first_decisive,   \* its first poll that showed a decisive last result
  write_failed,     \* whether an UPDATE of check_indexer_status raised
  intake_pc,        \* per index_documents request: where its handler is
  intake_file,      \* per request: the compound and the sha256 of its file
  intake_response,  \* per request: the response sent
  table_rows,       \* the rows of ipx_documents, oldest first
  blobs,            \* per request: blobs it uploaded
  triggers,         \* per request: trigger_indexer threads it started
  generated_sql,    \* the SQL text search_database got from the model
  gate_pc,          \* where search_database is
  gate_response,    \* the status of its response
  executed          \* the SQL texts it handed to the database

\* the locals of check_indexer_status
pollerVars == <<polls, observed, first_decisive, write_failed>>

searchVars == <<documents, arg_doc_ids, arg_compound_id, pc, doc_ids, status, futures,
                all_results, result, db_queries, calls, loop_runs>>

managerVars == <<connection_string, instance, objects, manager_log>>

httpVars == <<endpoint, header, body, http_pc, position, handler_compound, response, db_reads,
              db_writes, uploads, searches>>

indexingVars == <<inserted_id, indexing_pc, created_index, recorded_index, queried_index,
                  doc_status, status_writes, indexer_runs, pollerVars>>

\* concurrent requests to /api/index-documents
intakeVars == <<intake_pc, intake_file, intake_response, table_rows, blobs, triggers>>

\* one request to /api/search-database
sqlVars == <<generated_sql, gate_pc, gate_response, executed>>

\* what the search pipeline does not touch
appVars == <<managerVars, httpVars, indexingVars, intakeVars, sqlVars>>

vars == <<searchVars, managerVars, httpVars, indexingVars, intakeVars, sqlVars>>

NoResult == [answer |-> <<>>, sources |-> EmptyMap]

NoResponse == [status |-> 0, code |-> NoneId]

NoPoll == [poll |-> 0, saw |-> NoneId]

Requests == 1..MaxRequests

NoFile == [compound_id |-> NoneId, sha256 |-> NoneId]

\* no search_documents call is under way
SearchIdle ==
  /\ documents = DefaultDocuments
  /\ arg_doc_ids = <<>>
  /\ arg_compound_id = NoneId
  /\ pc = "idle"
  /\ doc_ids = <<>>
  /\ status = <<>>
  /\ futures = <<>>
  /\ all_results = <<>>
  /\ result = NoResult
  /\ db_queries = 0
  /\ calls = <<>>
  /\ loop_runs = 0

\* the class attributes of DBConnectionManager as the class body sets them
ManagerIdle ==
  /\ connection_string = NoneId
  /\ instance = 0
  /\ objects = 0
  /\ manager_log = <<>>

\* no HTTP request is being handled
HttpIdle ==
  /\ endpoint = NoneId
  /\ header = NoneId
  /\ body = NoneId
  /\ http_pc = "idle"
  /\ position = 0
  /\ handler_compound = NoneId
  /\ response = NoResponse
  /\ db_reads = 0
  /\ db_writes = 0
  /\ uploads = 0
  /\ searches = 0

\* no document has been uploaded
IndexingIdle ==
  /\ inserted_id = 0
  /\ indexing_pc = "idle"
  /\ created_index = <<>>
  /\ recorded_index = <<>>
  /\ queried_index = <<>>
  /\ doc_status = NoneId
  /\ status_writes = <<>>
  /\ indexer_runs = 0
  /\ polls = 0
  /\ observed = NoneId
  /\ first_decisive = NoPoll
  /\ write_failed = FALSE

\* no request to /api/index-documents has arrived; the table is empty
IntakeIdle ==
  /\ intake_pc = [r \in Requests |-> "idle"]
  /\ intake_file = [r \in Requests |-> NoFile]
  /\ intake_response = [r \in Requests |-> NoResponse]
  /\ table_rows = <<>>
  /\ blobs = [r \in Requests |-> 0]
  /\ triggers = [r \in Requests |-> 0]

\* no request to /api/search-database has arrived
SqlIdle ==
  /\ generated_sql = <<>>
  /\ gate_pc = "idle"
  /\ gate_response = 0
  /\ executed = <<>>

Init ==
  /\ ManagerIdle
  /\ HttpIdle
  /\ IndexingIdle
  /\ IntakeIdle
  /\ SqlIdle
  /\ arg_doc_ids \in DocIdsArguments
  /\ arg_compound_id \in CompoundArguments
  /\ documents \in (IF arg_doc_ids \in { <<>>, << <<>> >> }
                    THEN DocumentTables ELSE {DefaultDocuments})
  /\ pc = "resolve"
  /\ doc_ids = <<>>
  /\ status = <<>>
  /\ futures = <<>>
  /\ all_results = <<>>
  /\ result = NoResult
  /\ db_queries = 0
  /\ calls = <<>>
  /\ loop_runs = 0

(***************************************************************************)
(* Resolution of the documents to search (lines 19-33).                    *)
(***************************************************************************)
select_any_status(compound_id) ==
  { id \in DOMAIN documents : documents[id].compound_id = compound_id }

\* SELECT id FROM ipx_documents WHERE compound_id = ? AND status = 'indexed'
select_indexed(compound_id) ==
  { id \in DOMAIN documents :
      documents[id].compound_id = compound_id /\ documents[id].status = "indexed" }

\* the rows of a select come in no fixed order
Orderings(S) ==
  { o \in [1..Cardinality(S) -> S] : \A i, j \in DOMAIN o : o[i] = o[j] => i = j }

\* doc_ids is None or len(doc_ids) == 0
NoExplicitIds == IF arg_doc_ids = <<>> THEN TRUE ELSE arg_doc_ids[1] = <<>>

Return(answer, sources) ==
  /\ result' = [answer |-> answer, sources |-> sources]
  /\ pc' = "returned"

ResolveExplicitIndexedOnly ==
  /\ pc = "resolve"
  /\ ~NoExplicitIds
  /\ doc_ids' = SelectSeq(arg_doc_ids[1],
                          LAMBDA s : \E id \in DOMAIN documents :
                                       IdString(id) = s /\ documents[id].status = "indexed")
  /\ pc' = "client"
  /\ UNCHANGED <<appVars, documents, arg_doc_ids, arg_compound_id, status, futures,
                 all_results, result, db_queries, calls, loop_runs>>

\* explicit ids given: they are searched as they are
ResolveExplicit ==
  /\ pc = "resolve"
  /\ ~NoExplicitIds
  /\ doc_ids' = arg_doc_ids[1]
  /\ pc' = "client"
  /\ UNCHANGED <<appVars, documents, arg_doc_ids, arg_compound_id, status, futures,
                 all_results, result, db_queries, calls, loop_runs>>

\* no explicit ids, a compound id: the indexed documents of the compound
ResolveCompound ==
  /\ pc = "resolve"
  /\ NoExplicitIds
  /\ Truthy(arg_compound_id)
  /\ \E rows \in Orderings(select_indexed(arg_compound_id)) :
       doc_ids' = [i \in DOMAIN rows |-> IdString(rows[i])]
  /\ db_queries' = db_queries + 1
  /\ pc' = "client"
  /\ UNCHANGED <<appVars, documents, arg_doc_ids, arg_compound_id, status, futures,
                 all_results, result, calls, loop_runs>>

\* DBConnectionManager.get_instance() or db.select raises: nothing catches it
ResolveCompoundRaises ==
  /\ pc = "resolve"
  /\ NoExplicitIds
  /\ Truthy(arg_compound_id)
  /\ pc' = "raised"
  /\ UNCHANGED <<appVars, documents, arg_doc_ids, arg_compound_id, doc_ids, status, futures,
                 all_results, result, db_queries, calls, loop_runs>>

\* neither ids nor compound id (line 33)
ReturnNothingToSearch ==
  /\ pc = "resolve"
  /\ NoExplicitIds
  /\ ~Truthy(arg_compound_id)
  /\ Return(FallbackNoDocuments, EmptyMap)
  /\ UNCHANGED <<appVars, documents, arg_doc_ids, arg_compound_id, doc_ids, status, futures,
                 all_results, db_queries, calls, loop_runs>>

(***************************************************************************)
(* Client construction, the empty check and the submission of one call per *)
(* document id (lines 36-40, 108-120).                                     *)
(***************************************************************************)
NothingResolvedUnchecked == FALSE

\* not doc_ids or len(doc_ids) == 0
NothingResolved == doc_ids = <<>>

CreateClient ==
  /\ pc = "client"
  /\ IF NothingResolved
     THEN /\ Return(FallbackNoDocuments, EmptyMap)
          /\ UNCHANGED <<status, futures, calls>>
     ELSE /\ pc' = "fanout"
          /\ status' = [i \in DOMAIN doc_ids |-> "queued"]
          /\ futures' = [i \in DOMAIN doc_ids |-> Pending]
          /\ calls' = [i \in DOMAIN doc_ids |-> 0]
          /\ UNCHANGED result
  /\ UNCHANGED <<appVars, documents, arg_doc_ids, arg_compound_id, doc_ids, all_results,
                 db_queries, loop_runs>>

\* AzureOpenAI(...) raises (no endpoint, no key): nothing catches it
CreateClientRaises ==
  /\ pc = "client"
  /\ pc' = "raised"
  /\ UNCHANGED <<appVars, documents, arg_doc_ids, arg_compound_id, doc_ids, status, futures,
                 all_results, result, db_queries, calls, loop_runs>>

(***************************************************************************)
(* The thread pool (lines 119-128).                                        *)
(***************************************************************************)
max_workers_unbounded == Len(doc_ids)

max_workers_single == IF Len(doc_ids) < 1 THEN Len(doc_ids) ELSE 1

\* min(5, len(doc_ids))
max_workers == IF Len(doc_ids) < 5 THEN Len(doc_ids) ELSE 5

\* the calls that hold a pool thread: a call that never returns keeps its own
Running == { i \in DOMAIN status : status[i] \in {"running", "hung"} }

StartWorkerFailFast(i) ==
  /\ pc = "fanout"
  /\ status[i] = "queued"
  /\ \A j \in DOMAIN futures :
       IF futures[j] = Pending THEN TRUE ELSE futures[j][2] # NoCompletion
  /\ \A j \in 1..(i - 1) : status[j] # "queued"
  /\ Cardinality(Running) < max_workers
  /\ status' = [status EXCEPT ![i] = "running"]
  /\ calls' = [calls EXCEPT ![i] = @ + 1]
  /\ UNCHANGED <<appVars, documents, arg_doc_ids, arg_compound_id, pc, doc_ids, futures,
                 all_results, result, db_queries, loop_runs>>

\* a free pool thread takes the oldest queued call
StartWorker(i) ==
  /\ pc = "fanout"
  /\ status[i] = "queued"
  /\ \A j \in 1..(i - 1) : status[j] # "queued"
  /\ Cardinality(Running) < max_workers
  /\ status' = [status EXCEPT ![i] = "running"]
  /\ calls' = [calls EXCEPT ![i] = @ + 1]
  /\ UNCHANGED <<appVars, documents, arg_doc_ids, arg_compound_id, pc, doc_ids, futures,
                 all_results, result, db_queries, loop_runs>>

search_single_index_retrying(i) ==
  /\ pc = "fanout"
  /\ status[i] = "running"
  /\ \E completion \in Responses(Len(doc_ids)) :
       IF completion = NoCompletion
       THEN /\ status' = [status EXCEPT ![i] = "queued"]
            /\ futures' = futures
       ELSE /\ status' = [status EXCEPT ![i] = "done"]
            /\ futures' = [futures EXCEPT ![i] = <<doc_ids[i], completion>>]
  /\ UNCHANGED <<appVars, documents, arg_doc_ids, arg_compound_id, pc, doc_ids,
                 all_results, result, db_queries, calls, loop_runs>>

\* search_single_index returns (doc_id, completion), or (doc_id, None) when
\* the call raised
search_single_index(i) ==
  /\ pc = "fanout"
  /\ status[i] = "running"
  /\ \E completion \in Responses(Len(doc_ids)) :
       futures' = [futures EXCEPT ![i] = <<doc_ids[i], completion>>]
  /\ status' = [status EXCEPT ![i] = "done"]
  /\ UNCHANGED <<appVars, documents, arg_doc_ids, arg_compound_id, pc, doc_ids,
                 all_results, result, db_queries, calls, loop_runs>>

\* if completion: (a completion object is truthy, None is not)
keeps(completion) == completion.kind = "completion"

CollectOverwriting(i) ==
  /\ pc = "fanout"
  /\ status[i] = "done"
  /\ status' = [status EXCEPT ![i] = "collected"]
  /\ all_results' = IF keeps(futures[i][2]) THEN <<futures[i]>> ELSE all_results
  /\ UNCHANGED <<appVars, documents, arg_doc_ids, arg_compound_id, pc, doc_ids, futures,
                 result, db_queries, calls, loop_runs>>

CollectFailFast(i) ==
  /\ pc = "fanout"
  /\ status[i] = "done"
  /\ status' = IF keeps(futures[i][2])
               THEN [status EXCEPT ![i] = "collected"]
               ELSE [j \in DOMAIN status |-> "collected"]
  /\ all_results' = IF keeps(futures[i][2])
                    THEN Append(all_results, futures[i])
                    ELSE all_results
  /\ UNCHANGED <<appVars, documents, arg_doc_ids, arg_compound_id, pc, doc_ids, futures,
                 result, db_queries, calls, loop_runs>>

\* as_completed hands over a finished future; its completion is kept
Collect(i) ==
  /\ pc = "fanout"
  /\ status[i] = "done"
  /\ status' = [status EXCEPT ![i] = "collected"]
  /\ all_results' = IF keeps(futures[i][2])
                    THEN Append(all_results, futures[i])
                    ELSE all_results
  /\ UNCHANGED <<appVars, documents, arg_doc_ids, arg_compound_id, pc, doc_ids, futures,
                 result, db_queries, calls, loop_runs>>

AllCollected == \A i \in DOMAIN status : status[i] = "collected"

(***************************************************************************)
(* After the pool has shut down (lines 130-224).                           *)
(***************************************************************************)
ReturnNoResultsUnchecked ==
  /\ pc = "fanout"
  /\ AllCollected
  /\ all_results = <<>>
  /\ Return(aggregate(all_results).answer, aggregate(all_results).sources)
  /\ UNCHANGED <<appVars, documents, arg_doc_ids, arg_compound_id, doc_ids, status, futures,
                 all_results, db_queries, calls, loop_runs>>

\* if not all_results
ReturnNoResults ==
  /\ pc = "fanout"
  /\ AllCollected
  /\ all_results = <<>>
  /\ Return(FallbackNoResults, EmptyMap)
  /\ UNCHANGED <<appVars, documents, arg_doc_ids, arg_compound_id, doc_ids, status, futures,
                 all_results, db_queries, calls, loop_runs>>

AggregateAndReturn ==
  /\ pc = "fanout"
  /\ AllCollected
  /\ all_results # <<>>
  /\ loop_runs' = loop_runs + Len(all_results)
  /\ Return(aggregate(all_results).answer, aggregate(all_results).sources)
  /\ UNCHANGED <<appVars, documents, arg_doc_ids, arg_compound_id, doc_ids, status, futures,
                 all_results, db_queries, calls>>

Next ==
  \/ ResolveExplicit
  \/ ResolveCompound
  \/ ResolveCompoundRaises
  \/ ReturnNothingToSearch
  \/ CreateClient
  \/ CreateClientRaises
  \/ \E i \in 1..Len(status) : StartWorker(i)
  \/ \E i \in 1..Len(status) : search_single_index(i)
  \/ \E i \in 1..Len(status) : Collect(i)
  \/ ReturnNoResults
  \/ AggregateAndReturn

Spec == Init /\ [][Next]_vars

(***************************************************************************)
(* A search in which one call to client.chat.completions.create (line 72)  *)
(* may never return.  Neither the call, nor as_completed, nor the exit of  *)
(* the with block has a timeout.  The pool hands a free thread to the      *)
(* oldest queued call, every other call returns or raises, and the calling *)
(* thread takes every finished future: weak fairness on those steps.       *)
(***************************************************************************)
HungCall == \E i \in DOMAIN status : status[i] = "hung"

\* the create call of worker i blocks for good
Hang(i) ==
  /\ pc = "fanout"
  /\ status[i] = "running"
  /\ ~HungCall
  /\ status' = [status EXCEPT ![i] = "hung"]
  /\ UNCHANGED <<appVars, documents, arg_doc_ids, arg_compound_id, pc, doc_ids, futures,
                 all_results, result, db_queries, calls, loop_runs>>

\* searches of two or more explicit identifiers
InitHung ==
  /\ Init
  /\ arg_doc_ids # <<>>
  /\ Len(arg_doc_ids[1]) >= 2
  /\ arg_compound_id = NoneId

NextHung ==
  \/ ResolveExplicit
  \/ CreateClient
  \/ \E i \in 1..Len(status) : StartWorker(i)
  \/ \E i \in 1..Len(status) : Hang(i)
  \/ \E i \in 1..Len(status) : search_single_index(i)
  \/ \E i \in 1..Len(status) : Collect(i)
  \/ ReturnNoResults
  \/ AggregateAndReturn

SpecHung ==
  /\ InitHung
  /\ [][NextHung]_vars
  /\ WF_vars(\E i \in 1..Len(status) : StartWorker(i))
  /\ WF_vars(\E i \in 1..Len(status) : search_single_index(i))
  /\ WF_vars(\E i \in 1..Len(status) : Collect(i))

(***************************************************************************)
(* DBConnectionManager (db_helper.py): the class attributes and the calls  *)
(* of its two class methods.                                               *)
(***************************************************************************)
\* what os.getenv('CONNECTION_STRING') may hand to initialize
ConnectionStrings == { NoneId, "DRIVER=A", "DRIVER=B" }

Logged(call, argument, raised, returned) ==
  manager_log' = Append(manager_log, [call |-> call, argument |-> argument,
                                      raised |-> raised, returned |-> returned])

initialize(connection) ==
  /\ Len(manager_log) < MaxManagerCalls
  /\ connection_string' = connection
  /\ Logged("initialize", connection, FALSE, 0)
  /\ UNCHANGED <<instance, objects, searchVars, httpVars, indexingVars,
                 intakeVars, sqlVars>>

get_instance ==
  /\ Len(manager_log) < MaxManagerCalls
  /\ IF connection_string = NoneId
     THEN /\ Logged("get_instance", NoneId, TRUE, 0)
          /\ UNCHANGED <<instance, objects>>
     ELSE /\ instance' = IF instance = 0 THEN objects + 1 ELSE instance
          /\ objects' = IF instance = 0 THEN objects + 1 ELSE objects
          /\ Logged("get_instance", NoneId, FALSE, instance')
  /\ UNCHANGED <<connection_string, searchVars, httpVars, indexingVars,
                 intakeVars, sqlVars>>

InitManager == ManagerIdle /\ SearchIdle /\ HttpIdle /\ IndexingIdle /\ IntakeIdle /\ SqlIdle

NextManager ==
  \/ \E connection \in ConnectionStrings : initialize(connection)
  \/ get_instance

SpecManager == InitManager /\ [][NextManager]_vars

(***************************************************************************)
(* The HTTP routes that read the X-Compound-ID header (api_routes.py,      *)
(* app.py).  A handler is the sequence of its steps; a step may answer the *)
(* request, and an exception answers it with the handler's error code.     *)
(***************************************************************************)
\* steps: on says which outcome of the step answers with (status, code)
ExtractStep == [kind |-> "extract", on |-> "raise", status |-> 400, code |-> "MISSING_COMPOUND_ID"]
SwallowedExtractStep == [kind |-> "extract", on |-> "never", status |-> 0, code |-> NoneId]
BodyStep(code) == [kind |-> "body", on |-> "invalid", status |-> 400, code |-> code]
QueryStep == [kind |-> "body", on |-> "falsy", status |-> 400, code |-> NoneId]
FileStep == [kind |-> "file", on |-> "invalid", status |-> 400, code |-> "FILE_MISSING"]
SelectStep(on, status_code, code) ==
  [kind |-> "select", on |-> on, status |-> status_code, code |-> code]
InsertStep(on, status_code, code) ==
  [kind |-> "insert", on |-> on, status |-> status_code, code |-> code]
UploadStep == [kind |-> "upload", on |-> "always", status |-> 200, code |-> NoneId]
SearchStep == [kind |-> "search", on |-> "never", status |-> 0, code |-> NoneId]
RespondStep == [kind |-> "respond", on |-> "always", status |-> 200, code |-> NoneId]

ScopedEndpoints ==
  { "get_departments", "create_department", "get_department", "get_documents",
    "get_department_documents", "assign_document_to_department",
    "search_department_documents", "index_documents" }

Endpoints == ScopedEndpoints \cup { "search_documents" }

Handler(e) ==
  CASE e = "get_departments" ->
         << ExtractStep, SelectStep("never", 0, NoneId), RespondStep >>
    [] e = "create_department" ->
         << ExtractStep, BodyStep("INVALID_REQUEST"),
            InsertStep("empty", 500, "DB_ERROR"), RespondStep >>
    [] e = "get_department" ->
         << ExtractStep, SelectStep("empty", 404, "NOT_FOUND"), RespondStep >>
    [] e = "get_documents" ->
         << ExtractStep, SelectStep("never", 0, NoneId), RespondStep >>
    [] e = "get_department_documents" ->
         << ExtractStep, SelectStep("empty", 404, "NOT_FOUND"),
            SelectStep("never", 0, NoneId), RespondStep >>
    [] e = "assign_document_to_department" ->
         << ExtractStep, BodyStep("INVALID_REQUEST"),
            SelectStep("empty", 404, "NOT_FOUND"), SelectStep("empty", 404, "NOT_FOUND"),
            SelectStep("rows", 409, "ALREADY_EXISTS"), InsertStep("never", 0, NoneId),
            RespondStep >>
    [] e = "search_department_documents" ->
         << ExtractStep, BodyStep("INVALID_REQUEST"),
            SelectStep("empty", 404, "NOT_FOUND"), SelectStep("empty", 404, "NO_DOCUMENTS"),
            SearchStep, RespondStep >>
    [] e = "index_documents" ->
         << ExtractStep, FileStep, SelectStep("rows", 409, "DUPLICATE_DOCUMENT"),
            UploadStep >>
    [] e = "search_documents" ->
         << QueryStep, SwallowedExtractStep, SearchStep, RespondStep >>

\* the error code of the handler's "except Exception" clause
ExceptionCode(e) ==
  CASE e \in { "get_departments", "get_department", "get_documents",
               "get_department_documents" } -> "DB_ERROR"
    [] e \in { "create_department", "assign_document_to_department",
               "search_department_documents" } -> "SERVER_ERROR"
    [] e = "index_documents" -> "INTERNAL_SERVER_ERROR"
    [] e = "search_documents" -> NoneId

Headers == { NoneId, "", Tenant }

\* the JSON body or the file part: absent, without the required field,
\* with the field holding an empty string, or with a non-empty field
Bodies == { "absent", "invalid", "empty", "valid" }

\* an upload has a file name and no JSON field
BodiesOf(e) == IF e = "index_documents" THEN Bodies \ {"empty"} ELSE Bodies

Handling == http_pc = "handling"

Step == Handler(endpoint)[position]

Respond(status_code, code) ==
  /\ response' = [status |-> status_code, code |-> code]
  /\ http_pc' = "responded"
  /\ UNCHANGED position

Continue == position' = position + 1 /\ UNCHANGED <<http_pc, response>>

\* the step answers the request on this outcome, else the handler goes on
Outcome(outcome) ==
  IF Step.on = outcome THEN Respond(Step.status, Step.code) ELSE Continue

Receive(e, h, b) ==
  /\ http_pc = "idle"
  /\ endpoint' = e
  /\ header' = h
  /\ body' = b
  /\ http_pc' = "handling"
  /\ position' = 1
  /\ UNCHANGED <<handler_compound, response, db_reads, db_writes, uploads, searches,
                 searchVars, managerVars, indexingVars,
                 intakeVars, sqlVars>>

extract_compound_id_none_only(h) == [raised |-> h = NoneId, value |-> h]

\* compound_id = request.headers.get('X-Compound-ID'); if not compound_id: raise
extract_compound_id(h) == [raised |-> ~Truthy(h), value |-> h]

\* extract_compound_id in a handler that re-raises APIError: the exception
\* leaves the view function
ExtractCompoundId ==
  /\ Handling
  /\ Step.kind = "extract" /\ Step.on = "raise"
  /\ IF extract_compound_id(header).raised
     THEN /\ http_pc' = "api_error"
          /\ UNCHANGED <<position, handler_compound>>
     ELSE /\ position' = position + 1
          /\ handler_compound' = extract_compound_id(header).value
          /\ UNCHANGED http_pc
  /\ UNCHANGED <<endpoint, header, body, response, db_reads, db_writes, uploads,
                 searches, searchVars, managerVars, indexingVars,
                 intakeVars, sqlVars>>

\* extract_compound_id inside "try ... except Exception: compound_id = None"
ExtractCompoundIdSwallowed ==
  /\ Handling
  /\ Step.kind = "extract" /\ Step.on = "never"
  /\ handler_compound' = IF extract_compound_id(header).raised
                         THEN NoneId ELSE extract_compound_id(header).value
  /\ Continue
  /\ UNCHANGED <<endpoint, header, body, db_reads, db_writes, uploads,
                 searches, searchVars, managerVars, indexingVars,
                 intakeVars, sqlVars>>

\* @app.errorhandler(APIError): status_code of APIError defaults to 400
handle_api_error ==
  /\ http_pc = "api_error"
  /\ Respond(ExtractStep.status, ExtractStep.code)
  /\ UNCHANGED <<endpoint, header, body, handler_compound, db_reads, db_writes,
                 uploads, searches, searchVars, managerVars, indexingVars,
                 intakeVars, sqlVars>>

\* "if not data or key not in data", which lets an empty value through;
\* "if not data" and "if not user_query" of /api/search-documents, which do
\* not; for index-documents the file part and its filename
CheckBody ==
  /\ Handling
  /\ Step.kind \in {"body", "file"}
  /\ IF body = "valid" \/ (body = "empty" /\ Step.on = "invalid") THEN Continue
     ELSE Respond(Step.status,
                  IF Step.kind = "file" /\ body = "invalid"
                  THEN "FILENAME_MISSING" ELSE Step.code)
  /\ UNCHANGED <<endpoint, header, body, handler_compound, db_reads, db_writes,
                 uploads, searches, searchVars, managerVars, indexingVars,
                 intakeVars, sqlVars>>

\* db.select: rows, no rows, or an exception the handler answers with 500
Select ==
  /\ Handling
  /\ Step.kind = "select"
  /\ db_reads' = db_reads + 1
  /\ \/ \E rows \in {"rows", "empty"} : Outcome(rows)
     \/ Respond(500, ExceptionCode(endpoint))
  /\ UNCHANGED <<endpoint, header, body, handler_compound, db_writes,
                 uploads, searches, searchVars, managerVars, indexingVars,
                 intakeVars, sqlVars>>

\* an INSERT, through db.select (OUTPUT INSERTED) or db.execute_update
Insert ==
  /\ Handling
  /\ Step.kind = "insert"
  /\ db_writes' = db_writes + 1
  /\ \/ \E rows \in {"rows", "empty"} : Outcome(rows)
     \/ Respond(500, ExceptionCode(endpoint))
  /\ UNCHANGED <<endpoint, header, body, handler_compound, db_reads,
                 uploads, searches, searchVars, managerVars, indexingVars,
                 intakeVars, sqlVars>>

\* file.save(temp_file_path), which may raise, then upload_file(...), whose
\* response is the handler's response
Upload ==
  /\ Handling
  /\ Step.kind = "upload"
  /\ \/ uploads' = uploads + 1 /\ Respond(Step.status, Step.code)
     \/ uploads' = uploads + 1 /\ Respond(500, "BLOB_UPLOAD_ERROR")
     \/ UNCHANGED uploads /\ Respond(500, ExceptionCode(endpoint))
  /\ UNCHANGED <<endpoint, header, body, handler_compound, db_reads, db_writes,
                 searches, searchVars, managerVars, indexingVars,
                 intakeVars, sqlVars>>

\* search_documents(query, document_ids, compound_id) of open_ai_azure
Search ==
  /\ Handling
  /\ Step.kind = "search"
  /\ searches' = searches + 1
  /\ \/ Continue
     \/ Respond(500, ExceptionCode(endpoint))
  /\ UNCHANGED <<endpoint, header, body, handler_compound, db_reads, db_writes,
                 uploads, searchVars, managerVars, indexingVars,
                 intakeVars, sqlVars>>

RespondSuccess ==
  /\ Handling
  /\ Step.kind = "respond"
  /\ Respond(Step.status, Step.code)
  /\ UNCHANGED <<endpoint, header, body, handler_compound, db_reads, db_writes,
                 uploads, searches, searchVars, managerVars, indexingVars,
                 intakeVars, sqlVars>>

InitHttp == HttpIdle /\ SearchIdle /\ ManagerIdle /\ IndexingIdle /\ IntakeIdle /\ SqlIdle

NextHttp ==
  \/ \E e \in Endpoints, h \in Headers : \E b \in BodiesOf(e) : Receive(e, h, b)
  \/ ExtractCompoundId
  \/ ExtractCompoundIdSwallowed
  \/ handle_api_error
  \/ CheckBody
  \/ Select
  \/ Insert
  \/ Upload
  \/ Search
  \/ RespondSuccess

SpecHttp == InitHttp /\ [][NextHttp]_vars

(***************************************************************************)
(* Index names (upload_file.py, open_ai_azure.py).  A name is the sequence *)
(* of its characters.                                                      *)
(***************************************************************************)
DigitChars == <<"0", "1", "2", "3", "4", "5", "6", "7", "8", "9">>

\* str(n) of a non-negative integer
RECURSIVE Digits(_)
Digits(n) ==
  IF n < 10 THEN <<DigitChars[n + 1]>>
  ELSE Digits(n \div 10) \o <<DigitChars[(n % 10) + 1]>>

Digit == { DigitChars[k] : k \in DOMAIN DigitChars }

LowerLetters ==
  { "a", "b", "c", "d", "e", "f", "g", "h", "i", "j", "k", "l", "m",
    "n", "o", "p", "q", "r", "s", "t", "u", "v", "w", "x", "y", "z" }

\* str.lower() of one character, for the letters that occur in the names
\* and in the SQL texts
LowerChar(c) ==
  CASE c = "I" -> "i" [] c = "N" -> "n" [] c = "D" -> "d" [] c = "E" -> "e"
    [] c = "X" -> "x" [] c = "O" -> "o" [] c = "C" -> "c" [] c = "S" -> "s"
    [] c = "L" -> "l" [] c = "T" -> "t" [] c = "U" -> "u" [] c = "P" -> "p"
    [] c = "A" -> "a" [] c = "R" -> "r" [] OTHER -> c

\* str.strip('-')
RECURSIVE strip_dashes(_)
strip_dashes(name) ==
  IF name = <<>> THEN name
  ELSE IF Head(name) = "-" THEN strip_dashes(Tail(name))
  ELSE IF name[Len(name)] = "-" THEN strip_dashes(SubSeq(name, 1, Len(name) - 1))
  ELSE name

\* hashlib.md5(name.encode()).hexdigest()[:8]: eight hexadecimal digits that
\* depend on the name; which ones is not modelled
md5_prefix(name) == [i \in 1..8 |-> DigitChars[(Len(name) % 10) + 1]]

sanitize_name_letters_only(name) ==
  LET replaced == [i \in DOMAIN name |->
                     IF LowerChar(name[i]) \in LowerLetters \cup {"-"}
                     THEN LowerChar(name[i]) ELSE "-"]
  IN strip_dashes(replaced)

\* re.sub(r'[^a-z0-9-]', '-', name.lower()).strip('-'), a hash name when
\* that is empty, cut to 128 characters
sanitize_name(name) ==
  LET replaced == [i \in DOMAIN name |->
                     IF LowerChar(name[i]) \in LowerLetters \cup Digit \cup {"-"}
                     THEN LowerChar(name[i]) ELSE "-"]
      sanitized == IF strip_dashes(replaced) = <<>>
                   THEN <<"i", "d", "x", "-">> \o md5_prefix(name)
                   ELSE strip_dashes(replaced)
  IN SubSeq(sanitized, 1, IF Len(sanitized) < 128 THEN Len(sanitized) ELSE 128)

\* f"index-doc-{id}"
index_name_of(id) == <<"i", "n", "d", "e", "x", "-", "d", "o", "c", "-">> \o id

\* an UPDATE of the status column: who made it and the value it set
StatusWrite(by, value) == [by |-> by, value |-> value]

\* upload_file: the INSERT stores status 'processing' and returns the id
\* the table assigned
InsertDocument(id) ==
  /\ indexing_pc = "idle"
  /\ inserted_id' = id
  /\ doc_status' = "processing"
  /\ indexing_pc' = "inserted"
  /\ UNCHANGED <<created_index, recorded_index, queried_index, status_writes,
                 indexer_runs, pollerVars, searchVars, managerVars, httpVars,
                 intakeVars, sqlVars>>

\* the ways trigger_indexer ends without starting check_indexer_status
GaveUp == {"no_index", "no_data_source", "no_indexer", "update_raised", "run_raised"}

\* trigger_indexer: create_search_index(index_name) returns the sanitized
\* name of the index it created, or None, and then trigger_indexer gives up
create_search_index ==
  /\ indexing_pc = "inserted"
  /\ \/ /\ created_index' = sanitize_name(index_name_of(Digits(inserted_id)))
        /\ indexing_pc' = "index_created"
     \/ /\ indexing_pc' = "no_index"
        /\ UNCHANGED created_index
  /\ UNCHANGED <<inserted_id, recorded_index, queried_index, doc_status, status_writes,
                 indexer_runs, pollerVars, searchVars, managerVars, httpVars,
                 intakeVars, sqlVars>>

\* create_data_source returns a name, or None and trigger_indexer raises
create_data_source ==
  /\ indexing_pc = "index_created"
  /\ indexing_pc' \in {"data_source_created", "no_data_source"}
  /\ UNCHANGED <<inserted_id, created_index, recorded_index, queried_index, doc_status,
                 status_writes, indexer_runs, pollerVars, searchVars, managerVars,
                 httpVars,
                 intakeVars, sqlVars>>

\* create_indexer returns a name, or None and the rest is skipped
create_indexer ==
  /\ indexing_pc = "data_source_created"
  /\ indexing_pc' \in {"indexer_created", "no_indexer"}
  /\ UNCHANGED <<inserted_id, created_index, recorded_index, queried_index, doc_status,
                 status_writes, indexer_runs, pollerVars, searchVars, managerVars,
                 httpVars,
                 intakeVars, sqlVars>>

RecordIndexAsIndexed ==
  /\ indexing_pc = "indexer_created"
  /\ recorded_index' = created_index
  /\ doc_status' = "indexed"
  /\ status_writes' = Append(status_writes, StatusWrite("trigger_indexer", "indexed"))
  /\ indexing_pc' = "recorded"
  /\ UNCHANGED <<inserted_id, created_index, queried_index, indexer_runs, pollerVars,
                 searchVars, managerVars, httpVars,
                 intakeVars, sqlVars>>

\* trigger_indexer: the row gets sanitized_index_name, the indexer name and
\* status 'processing', unless the UPDATE raises
RecordIndex ==
  /\ indexing_pc = "indexer_created"
  /\ \/ /\ recorded_index' = created_index
        /\ doc_status' = "processing"
        /\ status_writes' = Append(status_writes,
                                   StatusWrite("trigger_indexer", "processing"))
        /\ indexing_pc' = "recorded"
     \/ /\ indexing_pc' = "update_raised"
        /\ UNCHANGED <<recorded_index, doc_status, status_writes>>
  /\ UNCHANGED <<inserted_id, created_index, queried_index, indexer_runs, pollerVars,
                 searchVars, managerVars, httpVars,
                 intakeVars, sqlVars>>

\* trigger_indexer: indexer_client.run_indexer, which may raise
run_indexer ==
  /\ indexing_pc = "recorded"
  /\ \/ /\ indexer_runs' = indexer_runs + 1
        /\ indexing_pc' = "run_requested"
     \/ /\ indexing_pc' = "run_raised"
        /\ UNCHANGED indexer_runs
  /\ UNCHANGED <<inserted_id, created_index, recorded_index, queried_index, doc_status,
                 status_writes, pollerVars, searchVars, managerVars, httpVars,
                 intakeVars, sqlVars>>

StartPollerAnyway ==
  /\ indexing_pc \in GaveUp \cup {"run_requested"}
  /\ indexing_pc' = "polling"
  /\ UNCHANGED <<inserted_id, created_index, recorded_index, queried_index, doc_status,
                 status_writes, indexer_runs, pollerVars, searchVars, managerVars,
                 httpVars,
                 intakeVars, sqlVars>>

\* trigger_indexer: threading.Thread(target=check_indexer_status, ...).start()
StartPoller ==
  /\ indexing_pc = "run_requested"
  /\ indexing_pc' = "polling"
  /\ UNCHANGED <<inserted_id, created_index, recorded_index, queried_index, doc_status,
                 status_writes, indexer_runs, pollerVars, searchVars, managerVars,
                 httpVars,
                 intakeVars, sqlVars>>

(***************************************************************************)
(* check_indexer_status (upload_file.py 205-266).                          *)
(***************************************************************************)
max_retries == 12

\* what one pass of the loop may meet: get_indexer_status raises, there is
\* no last result, or the last result has one of these statuses
PollOutcomes ==
  {"raised", "no_last_result", "inProgress", "reset",
   "success", "transientFailure", "warning", "failed"}

\* the last results the loop ends on
Decisive == {"success", "transientFailure", "warning", "failed"}

status_for_shifted(seen) ==
  CASE seen = "success" -> "warning"
    [] seen \in {"transientFailure", "warning"} -> "failed"
    [] seen = "failed" -> "indexed"

\* the status each branch writes
status_for(seen) ==
  CASE seen = "success" -> "indexed"
    [] seen \in {"transientFailure", "warning"} -> "warning"
    [] seen = "failed" -> "failed"

PollWithoutReturn(seen, written, rerun) ==
  /\ indexing_pc = "polling"
  /\ polls < max_retries
  /\ polls' = polls + 1
  /\ observed' = seen
  /\ first_decisive' = IF seen \in Decisive /\ first_decisive = NoPoll
                       THEN [poll |-> polls + 1, saw |-> seen]
                       ELSE first_decisive
  /\ IF seen \in Decisive
     THEN /\ doc_status' = status_for(seen)
          /\ status_writes' = Append(status_writes,
                                     StatusWrite("check_indexer_status", status_for(seen)))
     ELSE UNCHANGED <<doc_status, status_writes>>
  /\ UNCHANGED <<inserted_id, indexing_pc, created_index, recorded_index, queried_index,
                 indexer_runs, write_failed, searchVars, managerVars, httpVars,
                 intakeVars, sqlVars>>

\* one pass of the loop.  On a decisive last result the status is written
\* and the function returns, after asking for another indexer run when the
\* result was a success (a failure of that request is swallowed); an UPDATE
\* that raises is swallowed by the loop's except clause and the loop goes on
Poll(seen, written, rerun) ==
  /\ indexing_pc = "polling"
  /\ polls < max_retries
  /\ polls' = polls + 1
  /\ observed' = seen
  /\ first_decisive' = IF seen \in Decisive /\ first_decisive = NoPoll
                       THEN [poll |-> polls + 1, saw |-> seen]
                       ELSE first_decisive
  /\ IF seen \in Decisive /\ written
     THEN /\ doc_status' = status_for(seen)
          /\ status_writes' = Append(status_writes,
                                     StatusWrite("check_indexer_status", status_for(seen)))
          /\ indexer_runs' = IF seen = "success" /\ rerun
                             THEN indexer_runs + 1 ELSE indexer_runs
          /\ indexing_pc' = "finished"
          /\ UNCHANGED write_failed
     ELSE /\ write_failed' = (write_failed \/ seen \in Decisive)
          /\ UNCHANGED <<doc_status, status_writes, indexer_runs, indexing_pc>>
  /\ UNCHANGED <<inserted_id, created_index, recorded_index, queried_index,
                 searchVars, managerVars, httpVars,
                 intakeVars, sqlVars>>

\* after the loop: status 'timeout'; this UPDATE is outside any try
Timeout(written) ==
  /\ indexing_pc = "polling"
  /\ polls = max_retries
  /\ IF written
     THEN /\ doc_status' = "timeout"
          /\ status_writes' = Append(status_writes,
                                     StatusWrite("check_indexer_status", "timeout"))
          /\ indexing_pc' = "finished"
          /\ UNCHANGED write_failed
     ELSE /\ write_failed' = TRUE
          /\ indexing_pc' = "poller_died"
          /\ UNCHANGED <<doc_status, status_writes>>
  /\ UNCHANGED <<inserted_id, created_index, recorded_index, queried_index, indexer_runs,
                 polls, observed, first_decisive, searchVars, managerVars, httpVars,
                 intakeVars, sqlVars>>

\* search_single_index(doc_id) with doc_id = str(result['id'])
SearchIndexName ==
  /\ indexing_pc # "idle"
  /\ queried_index = <<>>
  /\ queried_index' = index_name_of(Digits(inserted_id))
  /\ UNCHANGED <<inserted_id, indexing_pc, created_index, recorded_index, doc_status,
                 status_writes, indexer_runs, pollerVars, searchVars, managerVars,
                 httpVars,
                 intakeVars, sqlVars>>

InitIndexing == IndexingIdle /\ SearchIdle /\ ManagerIdle /\ HttpIdle /\ IntakeIdle /\ SqlIdle

\* an upload, its trigger_indexer thread up to the UPDATE, and a search
NextIndexing ==
  \/ \E id \in 1..MaxAssignedId : InsertDocument(id)
  \/ create_search_index
  \/ create_data_source
  \/ create_indexer
  \/ RecordIndex
  \/ SearchIndexName

SpecIndexing == InitIndexing /\ [][NextIndexing]_vars

\* an upload, its trigger_indexer thread, the check_indexer_status thread
\* that thread starts, and a search of the document at any moment
NextPoller ==
  \/ \E id \in 1..MaxPolledId : InsertDocument(id)
  \/ create_search_index
  \/ create_data_source
  \/ create_indexer
  \/ RecordIndex
  \/ run_indexer
  \/ StartPoller
  \/ \E seen \in PollOutcomes, written, rerun \in BOOLEAN : Poll(seen, written, rerun)
  \/ \E written \in BOOLEAN : Timeout(written)
  \/ SearchIndexName

SpecPoller == InitIndexing /\ [][NextPoller]_vars

(***************************************************************************)
(* Concurrent requests to /api/index-documents (app.py 247-329) with the   *)
(* header and the file part in order.  The server handles each request in  *)
(* a thread of its own; a handler's database calls are separate            *)
(* statements on connections of their own, with no transaction around the  *)
(* duplicate check and the INSERT.                                         *)
(***************************************************************************)
\* the compound of the header and the sha256 of the content
Files == [compound_id : {Tenant, OtherTenant}, sha256 : {"h1", "h2"}]

RowsOf(file) == { k \in DOMAIN table_rows : table_rows[k] = file }

Answer(r, status_code, code) ==
  /\ intake_response' = [intake_response EXCEPT ![r] = [status |-> status_code, code |-> code]]
  /\ intake_pc' = [intake_pc EXCEPT ![r] = "responded"]

\* the request arrives; file_hash = sha256(file.read())
ReceiveUpload(r, file) ==
  /\ intake_pc[r] = "idle"
  /\ intake_file' = [intake_file EXCEPT ![r] = file]
  /\ intake_pc' = [intake_pc EXCEPT ![r] = "check"]
  /\ UNCHANGED <<intake_response, table_rows, blobs, triggers,
                 searchVars, managerVars, httpVars, indexingVars, sqlVars>>

\* SELECT * FROM ipx_documents WHERE compound_id = ? and sha256 = ?
CheckDuplicate(r) ==
  /\ intake_pc[r] = "check"
  /\ IF RowsOf(intake_file[r]) # {}
     THEN Answer(r, 409, "DUPLICATE_DOCUMENT")
     ELSE /\ intake_pc' = [intake_pc EXCEPT ![r] = "upload"]
          /\ UNCHANGED intake_response
  /\ UNCHANGED <<intake_file, table_rows, blobs, triggers,
                 searchVars, managerVars, httpVars, indexingVars, sqlVars>>

\* file.save and, in upload_file, blob_client.upload_blob; either may raise
UploadBlob(r) ==
  /\ intake_pc[r] = "upload"
  /\ \/ /\ blobs' = [blobs EXCEPT ![r] = @ + 1]
        /\ intake_pc' = [intake_pc EXCEPT ![r] = "insert"]
        /\ UNCHANGED intake_response
     \/ /\ Answer(r, 500, "INTERNAL_SERVER_ERROR")
        /\ UNCHANGED blobs
     \/ /\ Answer(r, 500, "BLOB_UPLOAD_ERROR")
        /\ UNCHANGED blobs
  /\ UNCHANGED <<intake_file, table_rows, triggers,
                 searchVars, managerVars, httpVars, indexingVars, sqlVars>>

\* upload_file: the INSERT, the trigger_indexer thread and the response; an
\* INSERT that raises is answered 500
InsertRow(r) ==
  /\ intake_pc[r] = "insert"
  /\ \/ /\ table_rows' = Append(table_rows, intake_file[r])
        /\ triggers' = [triggers EXCEPT ![r] = @ + 1]
        /\ Answer(r, 200, NoneId)
     \/ /\ Answer(r, 500, "BLOB_UPLOAD_ERROR")
        /\ UNCHANGED <<table_rows, triggers>>
  /\ UNCHANGED <<intake_file, blobs,
                 searchVars, managerVars, httpVars, indexingVars, sqlVars>>

InitIntake ==
  IntakeIdle /\ SearchIdle /\ ManagerIdle /\ HttpIdle /\ IndexingIdle /\ SqlIdle

NextIntake ==
  \/ \E r \in Requests, file \in Files : ReceiveUpload(r, file)
  \/ \E r \in Requests : CheckDuplicate(r)
  \/ \E r \in Requests : UploadBlob(r)
  \/ \E r \in Requests : InsertRow(r)

SpecIntake == InitIntake /\ [][NextIntake]_vars

(***************************************************************************)
(* The read-only gate of /api/search-database (app.py 496-532).  A SQL     *)
(* text is a sequence of characters.                                       *)
(***************************************************************************)
\* what str.strip() removes and str.split() splits on
SqlWhitespace == {" ", "\n", "\t"}

\* the texts the model may generate are put together from these
SqlPieces ==
  { <<"s", "e", "l", "e", "c", "t">>, <<"S", "E", "L", "E", "C", "T">>,
    <<"S", "e", "l">>, <<" ">>, <<"\n">>, <<"*">>, <<";">>,
    <<"u", "p", "d", "a", "t", "e">>, <<"U", "P", "D", "A", "T", "E">>,
    <<"D", "r", "o", "p">>, <<"s", "p", "_">>, <<"x", "p", "_">>,
    <<"e", "x", "e", "c">>, <<"d">> }

RECURSIVE Joined(_)
Joined(pieces) == IF pieces = <<>> THEN <<>> ELSE Head(pieces) \o Joined(Tail(pieces))

SqlTexts == { Joined(pieces) : pieces \in SeqsUpTo(SqlPieces, MaxSqlPieces) }

\* str.split(): the maximal runs of characters that are not whitespace
RECURSIVE split(_, _)
split(text, word) ==
  IF text = <<>> THEN (IF word = <<>> THEN <<>> ELSE <<word>>)
  ELSE IF Head(text) \in SqlWhitespace
       THEN (IF word = <<>> THEN <<>> ELSE <<word>>) \o split(Tail(text), <<>>)
       ELSE split(Tail(text), Append(word, Head(text)))

dangerous_keywords ==
  << <<"i", "n", "s", "e", "r", "t">>, <<"u", "p", "d", "a", "t", "e">>,
     <<"d", "e", "l", "e", "t", "e">>, <<"d", "r", "o", "p">>,
     <<"a", "l", "t", "e", "r">>, <<"t", "r", "u", "n", "c", "a", "t", "e">>,
     <<"c", "r", "e", "a", "t", "e">>, <<"e", "x", "e", "c">>,
     <<"e", "x", "e", "c", "u", "t", "e">>, <<"s", "p", "_">>, <<"x", "p", "_">> >>

is_read_only_by_prefix(sql) ==
  LET lowered == [i \in DOMAIN sql |-> LowerChar(sql[i])]
  IN Len(lowered) >= 6 /\ SubSeq(lowered, 1, 6) = <<"s", "e", "l", "e", "c", "t">>

\* sql_lower = generated_sql.lower().strip(); sql_lower.startswith('select')
\* and no keyword in sql_lower.split()
is_read_only(sql) ==
  LET lowered == [i \in DOMAIN sql |-> LowerChar(sql[i])]
      kept == { i \in DOMAIN lowered : lowered[i] \notin SqlWhitespace }
      sql_lower == IF kept = {} THEN <<>>
                   ELSE SubSeq(lowered, CHOOSE a \in kept : \A b \in kept : a <= b,
                                        CHOOSE a \in kept : \A b \in kept : a >= b)
      words == split(sql_lower, <<>>)
  IN /\ Len(sql_lower) >= 6
     /\ SubSeq(sql_lower, 1, 6) = <<"s", "e", "l", "e", "c", "t">>
     /\ \A k \in DOMAIN dangerous_keywords :
          \A w \in DOMAIN words : words[w] # dangerous_keywords[k]

\* the completion gives the SQL text, or the call raises and the request is
\* answered 500
GenerateSql ==
  /\ gate_pc = "idle"
  /\ \/ /\ generated_sql' \in SqlTexts
        /\ gate_pc' = "generated"
        /\ UNCHANGED gate_response
     \/ /\ gate_pc' = "failed"
        /\ gate_response' = 500
        /\ UNCHANGED generated_sql
  /\ UNCHANGED <<executed, searchVars, managerVars, httpVars, indexingVars, intakeVars>>

\* the two tests, then db_manager.select(generated_sql); get_instance or the
\* select may raise, which is answered 500
ValidateAndExecute ==
  /\ gate_pc = "generated"
  /\ gate_pc' = "responded"
  /\ IF ~is_read_only(generated_sql)
     THEN /\ gate_response' = 403
          /\ UNCHANGED executed
     ELSE \/ /\ executed' = Append(executed, generated_sql)
             /\ gate_response' \in {200, 500}
          \/ /\ gate_response' = 500
             /\ UNCHANGED executed
  /\ UNCHANGED <<generated_sql, searchVars, managerVars, httpVars, indexingVars,
                 intakeVars>>

InitGate ==
  SqlIdle /\ SearchIdle /\ ManagerIdle /\ HttpIdle /\ IndexingIdle /\ IntakeIdle

NextGate ==
  \/ GenerateSql
  \/ ValidateAndExecute

SpecGate == InitGate /\ [][NextGate]_vars

(***************************************************************************)
(* Vocabulary of the properties.                                           *)
(***************************************************************************)
Range(f) == { f[i] : i \in DOMAIN f }

Returned == pc = "returned"

\* sub occurs in text as a run of consecutive tokens
Occurs(sub, text) ==
  \E k \in 0..(Len(text) - Len(sub)) : SubSeq(text, k + 1, k + Len(sub)) = sub

\* the choices of a completion the loop body runs on
ProcessedChoices(completion) ==
  IF ~completion.parseable THEN {}
  ELSE { j \in DOMAIN completion.choices :
           \A k \in 1..j : completion.choices[k].wellformed }

HasDocPattern(choice) == \E i \in DOMAIN choice.content : choice.content[i] \in Markers

HasCitations(choice) == HasDocPattern(choice) /\ choice.citations # <<>>

IsNegative(choice) ==
  \E i \in DOMAIN choice.content :
    choice.content[i] \in {"NOT MENTIONED IN", "No Data On", "no data on"}

Contributes(choice) == HasCitations(choice) /\ ~IsNegative(choice)

\* the K of the [docK] markers of a choice that point into its citation list
ValidNumbers(choice) ==
  { MarkerNumber(choice.content[i]) :
      i \in { k \in DOMAIN choice.content : choice.content[k] \in Markers } }
  \cap (1..Len(choice.citations))

\* the (result, choice) positions the aggregation loop ran on
Processed ==
  UNION { { <<i, j>> : j \in ProcessedChoices(all_results[i][2]) } :
          i \in DOMAIN all_results }

ChoiceAt(p) == all_results[p[1]][2].choices[p[2]]
DocIdAt(p) == all_results[p[1]][1]

DistinctIds == \A i, j \in DOMAIN doc_ids : doc_ids[i] = doc_ids[j] => i = j

(***************************************************************************)
(* C1. Negative-phrase suppression: a result whose text holds a negative   *)
(* phrase, in any case, never has its text in the returned answer and adds *)
(* no entry to the returned source map, markers and citations or not.      *)
(***************************************************************************)
C1_NegativeSuppressed ==
  Returned =>
    \A p \in Processed :
      IsNegative(ChoiceAt(p)) =>
        /\ ~Occurs(ChoiceAt(p).content, result.answer)
        /\ \A K \in ValidNumbers(ChoiceAt(p)) :
             (source_key(DocIdAt(p), K) \in DOMAIN result.sources) =>
               \E q \in Processed :
                 /\ DocIdAt(q) = DocIdAt(p)
                 /\ Contributes(ChoiceAt(q))
                 /\ K \in ValidNumbers(ChoiceAt(q))

(***************************************************************************)
(* C2. Partial success: of three documents, A answers with a marker and    *)
(* citations, B answers with a negative phrase, C fails at transport; the  *)
(* answer is A's text alone and every key of the source map is a key of A. *)
(***************************************************************************)
SingleChoice(i) ==
  /\ futures[i][2].kind = "completion"
  /\ futures[i][2].parseable
  /\ Len(futures[i][2].choices) = 1
  /\ futures[i][2].choices[1].wellformed

PartialSuccess(a, b, c) ==
  /\ Returned
  /\ Len(doc_ids) = 3
  /\ DistinctIds
  /\ {a, b, c} = 1..3
  /\ SingleChoice(a) /\ Contributes(futures[a][2].choices[1])
  /\ SingleChoice(b) /\ IsNegative(futures[b][2].choices[1])
  /\ futures[c][2] = NoCompletion

C2_PartialSuccess ==
  \A a, b, c \in 1..3 :
    PartialSuccess(a, b, c) =>
      /\ result.answer = strip(futures[a][2].choices[1].content)
      /\ DOMAIN result.sources \subseteq
           { source_key(doc_ids[a], K) : K \in ValidNumbers(futures[a][2].choices[1]) }

(***************************************************************************)
(* C3. No-contribution fallback: some call returned a completion and no    *)
(* result contributes; the fixed "no information" message is returned with *)
(* an empty source map.                                                    *)
(***************************************************************************)
NothingContributes ==
  /\ all_results # <<>>
  /\ \A i \in DOMAIN all_results :
       \A j \in DOMAIN all_results[i][2].choices :
         ~Contributes(all_results[i][2].choices[j])

C3_NoContributionFallback ==
  (Returned /\ NothingContributes) =>
    result = [answer |-> FallbackNoInformation, sources |-> EmptyMap]

(***************************************************************************)
(* C4. All-failure fallback: every per-document call failed at transport;  *)
(* the pair returned is the "couldn't find" message with an empty source   *)
(* map, and the aggregation loop ran on no result.                         *)
(***************************************************************************)
AllCallsFailed ==
  /\ futures # <<>>
  /\ \A i \in DOMAIN futures : futures[i] = <<doc_ids[i], NoCompletion>>

C4_AllFailureFallback ==
  (Returned /\ AllCallsFailed) =>
    /\ result.answer = <<"I couldn't find relevant information in the documents.">>
    /\ result.sources = EmptyMap
    /\ loop_runs = 0

C4_Witness == Returned /\ AllCallsFailed /\ Len(futures) = 3

(***************************************************************************)
(* C5. No documents to search: once resolution has given no identifier,    *)
(* no call is submitted or issued, the aggregation loop never runs, and    *)
(* the pair returned is the "no relevant documents" message with an empty  *)
(* source map.                                                             *)
(***************************************************************************)
C5_NoDocuments ==
  (pc # "resolve" /\ doc_ids = <<>>) =>
    /\ pc # "fanout"
    /\ status = <<>> /\ futures = <<>> /\ calls = <<>> /\ all_results = <<>>
    /\ loop_runs = 0
    /\ Returned =>
         /\ result.answer = <<"I don't have any relevant documents to search through.">>
         /\ result.sources = EmptyMap

\* a compound whose documents are all failed or processing
C5_Witness ==
  /\ Returned
  /\ db_queries = 1
  /\ doc_ids = <<>>
  /\ arg_compound_id = Tenant
  /\ documents[1].status = "failed" /\ documents[2].status = "processing"

(***************************************************************************)
(* C6. Citation-key uniqueness across documents: two results of distinct   *)
(* document ids that both hold [docK] with K inside their citation lists   *)
(* give two distinct keys id1_K and id2_K in the source map, each mapped   *)
(* to the title (prefix stripped) of a K-th citation of its own document.  *)
(***************************************************************************)
\* the titles document p may store under K
OwnTitles(p, K) ==
  { strip_prefix(ChoiceAt(q).citations[K]) :
      q \in { r \in Processed : r[1] = p[1] /\ K \in ValidNumbers(ChoiceAt(r)) } }

SameMarker(p, q, K) ==
  /\ DocIdAt(p) # DocIdAt(q)
  /\ K \in ValidNumbers(ChoiceAt(p))
  /\ K \in ValidNumbers(ChoiceAt(q))

C6_KeysUniqueAcrossDocuments ==
  (Returned /\ DistinctIds) =>
    \A p, q \in Processed :
      \A K \in ValidNumbers(ChoiceAt(p)) :
        SameMarker(p, q, K) =>
          LET kp == DocIdAt(p) \o "_" \o ToString(K)
              kq == DocIdAt(q) \o "_" \o ToString(K)
          IN /\ kp # kq
             /\ kp \in DOMAIN result.sources
             /\ kq \in DOMAIN result.sources
             /\ result.sources[kp] \in OwnTitles(p, K)
             /\ result.sources[kq] \in OwnTitles(q, K)

\* two documents, both [doc1], titles that differ once stripped
C6_Witness ==
  /\ Returned
  /\ Len(all_results) = 2
  /\ \E p, q \in Processed :
       /\ SameMarker(p, q, 1)
       /\ strip_prefix(ChoiceAt(p).citations[1]) # strip_prefix(ChoiceAt(q).citations[1])
       /\ result.sources[DocIdAt(p) \o "_1"] = strip_prefix(ChoiceAt(p).citations[1])
       /\ result.sources[DocIdAt(q) \o "_1"] = strip_prefix(ChoiceAt(q).citations[1])

(***************************************************************************)
(* C7. Order-independence: with distinct document ids, every arrival order *)
(* of the collected results gives the source map and the set of            *)
(* contributing texts of the order that happened.                          *)
(***************************************************************************)
ArrivalOrders(seq) ==
  { [i \in DOMAIN seq |-> seq[o[i]]] : o \in Orderings(DOMAIN seq) }

ContributingTexts(results) ==
  { v[2] : v \in Range(process_results(EmptyAcc, results).valid_results) }

\* the texts between the blank lines of an answer
RECURSIVE Paragraphs(_, _)
Paragraphs(text, current) ==
  IF text = <<>> THEN (IF current = <<>> THEN {} ELSE {current})
  ELSE IF Head(text) = "\n\n"
       THEN (IF current = <<>> THEN {} ELSE {current}) \cup Paragraphs(Tail(text), <<>>)
       ELSE Paragraphs(Tail(text), Append(current, Head(text)))

C7_OrderIndependent ==
  (Returned /\ DistinctIds /\ all_results # <<>>) =>
    \A other \in ArrivalOrders(all_results) :
      /\ aggregate(other).sources = result.sources
      /\ ContributingTexts(other) = ContributingTexts(all_results)
      /\ Paragraphs(aggregate(other).answer, <<>>) = Paragraphs(result.answer, <<>>)

\* three results, two of them contributing, citing under the same number
C7_Witness ==
  /\ Returned
  /\ DistinctIds
  /\ Len(all_results) = 3
  /\ Cardinality(DOMAIN result.sources) = 3
  /\ Len(process_results(EmptyAcc, all_results).valid_results) = 2

(***************************************************************************)
(* C8. Explicit scope wins: a non-empty explicit id list is searched as it *)
(* is, one call per element, the document table is not queried, and        *)
(* neither status nor owning compound filters it, whatever compound id     *)
(* comes with the request.                                                 *)
(***************************************************************************)
C8_ExplicitScopeWins ==
  ~NoExplicitIds =>
    /\ db_queries = 0
    /\ pc # "resolve" => doc_ids = arg_doc_ids[1]
    /\ pc \in {"fanout", "returned"} =>
         /\ Len(status) = Len(arg_doc_ids[1])
         /\ \A i \in DOMAIN status :
              /\ calls[i] = (IF status[i] = "queued" THEN 0 ELSE 1)
              /\ status[i] \in {"done", "collected"} => futures[i][1] = arg_doc_ids[1][i]
    /\ Returned => \A i \in DOMAIN arg_doc_ids[1] : calls[i] = 1

\* the list names a document still processing and one of another compound
C8_Witness ==
  /\ Returned
  /\ arg_doc_ids = << <<"1", "2", "3">> >>
  /\ arg_compound_id = Tenant
  /\ documents[2].status = "processing"
  /\ documents[3].compound_id = OtherTenant
  /\ calls = <<1, 1, 1>>
  /\ Len(all_results) = 3

(***************************************************************************)
(* C9. Tenant scope: with no explicit ids and a compound id, the documents *)
(* searched are those of that compound in status indexed, each once, and   *)
(* no other.                                                               *)
(***************************************************************************)
IndexedOfCompound ==
  { ToString(id) : id \in { d \in DOMAIN documents :
                              /\ documents[d].compound_id = arg_compound_id
                              /\ documents[d].status = "indexed" } }

C9_TenantScope ==
  (NoExplicitIds /\ db_queries > 0) =>
    /\ db_queries = 1
    /\ Range(doc_ids) = IndexedOfCompound
    /\ DistinctIds
    /\ pc \in {"fanout", "returned"} /\ doc_ids # <<>> =>
         /\ Len(status) = Len(doc_ids)
         /\ \A i \in DOMAIN status :
              /\ calls[i] = (IF status[i] = "queued" THEN 0 ELSE 1)
              /\ status[i] \in {"done", "collected"} => futures[i][1] = doc_ids[i]
    /\ Returned /\ doc_ids # <<>> => \A i \in DOMAIN doc_ids : calls[i] = 1

\* one indexed document searched; a warning one and the other compound's not
C9_Witness ==
  /\ Returned
  /\ NoExplicitIds
  /\ arg_compound_id = Tenant
  /\ documents[2].status = "warning"
  /\ documents[3] = [compound_id |-> OtherTenant, status |-> "indexed"]
  /\ doc_ids = <<"1">>
  /\ calls = <<1>>

(***************************************************************************)
(* C10. No hard failure: search_documents never raises to its caller,      *)
(* whichever collaborator fails.                                           *)
(***************************************************************************)
C10_NeverRaises == pc # "raised"

(***************************************************************************)
(* C11. Per-document failure isolation: a per-document call that raises    *)
(* yields the pair (document id, None) and never makes search_documents    *)
(* raise; the calls for every other identifier of the request are still    *)
(* executed, and every payload they return reaches the aggregation.        *)
(***************************************************************************)
Failed(i) == IF futures[i] = Pending THEN FALSE ELSE futures[i][2] = NoCompletion

C11_FailureIsolation ==
  /\ pc = "raised" => status = <<>>
  /\ \A i \in DOMAIN status :
       status[i] \in {"done", "collected"} =>
         futures[i] # Pending /\ futures[i][1] = doc_ids[i]
  /\ (Returned /\ \E i \in DOMAIN futures : Failed(i)) =>
       \A j \in DOMAIN doc_ids :
         /\ calls[j] = 1
         /\ futures[j] # Pending
         /\ futures[j][2].kind = "completion" => futures[j] \in Range(all_results)

\* the second of three calls raised; the payloads of the other two were
\* aggregated
C11_Witness ==
  /\ Returned
  /\ Len(doc_ids) = 3
  /\ Failed(2)
  /\ ~Failed(1) /\ ~Failed(3)
  /\ Len(all_results) = 2
  /\ loop_runs = 2
  /\ result.answer # FallbackNoInformation

(***************************************************************************)
(* C12. Bounded fan-out: during a search over n >= 1 document identifiers  *)
(* at most min(5, n) per-document calls are in flight at the same time.    *)
(***************************************************************************)
InFlight == Cardinality({ i \in DOMAIN status : status[i] = "running" })

C12_BoundedFanOut ==
  Len(doc_ids) >= 1 =>
    /\ InFlight <= 5
    /\ InFlight <= Len(doc_ids)

\* five calls in flight while a sixth waits for a pool thread
C12_Witness ==
  /\ pc = "fanout"
  /\ Len(doc_ids) > 5
  /\ InFlight = 5
  /\ \E i \in DOMAIN status : status[i] = "queued"

(***************************************************************************)
(* C13. No fail-fast and join before aggregation: after a per-document     *)
(* call has failed, the oldest waiting call can still start as soon as a   *)
(* pool thread is free and every running call can still finish; the        *)
(* aggregation loop and the return happen only once every submitted call   *)
(* has finished or failed and has been collected.                          *)
(***************************************************************************)
OldestQueued(i) ==
  status[i] = "queued" /\ \A j \in 1..(i - 1) : status[j] # "queued"

C13_NoFailFastJoin ==
  /\ pc = "fanout" =>
       \A i \in DOMAIN status :
         /\ (OldestQueued(i) /\ InFlight < 5 /\ InFlight < Len(doc_ids)) =>
              ENABLED StartWorker(i)
         /\ status[i] = "running" => ENABLED search_single_index(i)
  /\ (status # <<>> /\ (loop_runs > 0 \/ Returned)) =>
       \A i \in DOMAIN status : status[i] = "collected" /\ futures[i] # Pending

\* a call has failed, a pool thread is free and another call still waits
C13_Witness ==
  /\ pc = "fanout"
  /\ \E i \in DOMAIN futures : Failed(i)
  /\ \E i \in DOMAIN status : status[i] = "queued"
  /\ InFlight < 5

(***************************************************************************)
(* C17. No retries: within one search_documents call exactly one           *)
(* per-document search call is issued for each element of the resolved     *)
(* list, whether it succeeds or fails: never more than one at any moment,  *)
(* none before the call is started, and exactly one for every element once *)
(* the request has returned.                                               *)
(***************************************************************************)
C17_NoRetries ==
  /\ \A i \in DOMAIN calls :
       /\ calls[i] <= 1
       /\ status[i] # "queued" => calls[i] = 1
  /\ Returned => /\ DOMAIN calls = DOMAIN doc_ids
                 /\ \A i \in DOMAIN doc_ids : calls[i] = 1

\* three documents, the first call failed, and the request has returned
C17_Witness ==
  /\ Returned
  /\ Len(doc_ids) = 3
  /\ Failed(1)
  /\ futures[2][2].kind = "completion"
  /\ calls = <<1, 1, 1>>

(***************************************************************************)
(* C14. Contribution rule: a result's answer text is appended to the       *)
(* combined answer if and only if it holds a [docK] marker, its citation   *)
(* list is not empty and it holds no negative phrase.  The combined answer *)
(* is the contributing texts in collection order, a blank line after each, *)
(* and the answer returned is that text without its outer whitespace;      *)
(* results that do not contribute add nothing, and when none contributes   *)
(* the answer is the no-information fallback.  The results meant are the   *)
(* choices the loop body runs on.                                          *)
(***************************************************************************)
\* the texts of the contributing choices of one completion, from choice j on
RECURSIVE ContributingFrom(_, _)
ContributingFrom(completion, j) ==
  IF j \notin ProcessedChoices(completion) THEN <<>>
  ELSE (IF Contributes(completion.choices[j])
        THEN <<completion.choices[j].content>> ELSE <<>>)
       \o ContributingFrom(completion, j + 1)

\* the contributing texts of the results collected, in collection order
RECURSIVE ContributingInOrder(_)
ContributingInOrder(results) ==
  IF results = <<>> THEN <<>>
  ELSE ContributingFrom(Head(results)[2], 1) \o ContributingInOrder(Tail(results))

RECURSIVE EachThenBlankLine(_)
EachThenBlankLine(texts) ==
  IF texts = <<>> THEN <<>>
  ELSE Head(texts) \o <<"\n\n">> \o EachThenBlankLine(Tail(texts))

\* text without the whitespace before its first and after its last word
Trimmed(text) ==
  LET words == { i \in DOMAIN text : text[i] \notin {" ", "\n\n"} }
  IN IF words = {} THEN <<>>
     ELSE SubSeq(text, CHOOSE a \in words : \A b \in words : a <= b,
                       CHOOSE a \in words : \A b \in words : a >= b)

C14_ContributionRule ==
  (Returned /\ all_results # <<>>) =>
    LET texts == ContributingInOrder(all_results)
        combined == process_results(EmptyAcc, all_results).combined_answer
    IN /\ combined = EachThenBlankLine(texts)
       /\ result.answer = (IF texts = <<>> THEN FallbackNoInformation
                                          ELSE Trimmed(combined))

\* three results: two contribute and are separated by a blank line, the
\* third holds a negative phrase
C14_Witness ==
  /\ Returned
  /\ Len(all_results) = 3
  /\ Len(ContributingInOrder(all_results)) = 2
  /\ \E i \in DOMAIN all_results :
       /\ all_results[i][2].parseable
       /\ all_results[i][2].choices # <<>>
       /\ IsNegative(all_results[i][2].choices[1])
       /\ HasCitations(all_results[i][2].choices[1])
  /\ Len(result.answer) = 3
  /\ result.answer[2] = "\n\n"

(***************************************************************************)
(* C15. Title prefix stripping: every title stored in the source map is    *)
(* the cited title without the text up to and including its first          *)
(* underscore, or the cited title itself when it holds no underscore;      *)
(* stripping a stored title again changes nothing when the cited title     *)
(* held at most one underscore.                                            *)
(***************************************************************************)
Underscores(title) == { i \in DOMAIN title : title[i] = "_" }

AfterFirstUnderscore(title) ==
  IF Underscores(title) = {} THEN title
  ELSE LET first == CHOOSE i \in Underscores(title) : \A j \in Underscores(title) : i <= j
       IN [k \in 1..(Len(title) - first) |-> title[first + k]]

\* the cited titles the loop stored under a key
CitedUnder(key) ==
  UNION { { ChoiceAt(p).citations[K] :
              K \in { N \in ValidNumbers(ChoiceAt(p)) :
                        key = DocIdAt(p) \o "_" \o ToString(N) } } :
          p \in { q \in Processed : HasCitations(ChoiceAt(q)) } }

C15_StoredTitleStripped ==
  Returned =>
    \A key \in DOMAIN result.sources :
      \E title \in CitedUnder(key) :
        /\ result.sources[key] = AfterFirstUnderscore(title)
        /\ Cardinality(Underscores(title)) <= 1 =>
             AfterFirstUnderscore(result.sources[key]) = result.sources[key]

\* original wording: stripping any stored title again changes nothing
C15_StrippingIdempotent ==
  Returned =>
    \A key \in DOMAIN result.sources :
      \E title \in CitedUnder(key) :
        /\ result.sources[key] = AfterFirstUnderscore(title)
        /\ AfterFirstUnderscore(result.sources[key]) = result.sources[key]

\* one title stored without its prefix, one stored as it was cited
C15_Witness ==
  /\ Returned
  /\ \E key \in DOMAIN result.sources :
       <<"u", "_", "a">> \in CitedUnder(key) /\ result.sources[key] = <<"a">>
  /\ \E key \in DOMAIN result.sources :
       <<"b">> \in CitedUnder(key) /\ result.sources[key] = <<"b">>

(***************************************************************************)
(* C16. Malformed payloads: a payload whose processing raises before any   *)
(* of its choices is handled adds no answer text and no source-map entry,  *)
(* and the outcome is that of the other results alone; when it was the     *)
(* only payload collected, the outcome is the no-information fallback with *)
(* an empty source map.  A payload that raises at a later choice keeps     *)
(* what its earlier choices stored.                                        *)
(***************************************************************************)
Malformed(completion) ==
  \/ ~completion.parseable
  \/ \E j \in DOMAIN completion.choices : ~completion.choices[j].wellformed

\* the processing raised before the body ran on any choice
DroppedWhole(completion) == Malformed(completion) /\ ProcessedChoices(completion) = {}

Without(results, i) ==
  [k \in 1..(Len(results) - 1) |-> IF k < i THEN results[k] ELSE results[k + 1]]

\* the payload cut before the choice its processing raised on
CutAtRaise(completion) ==
  Completion(TRUE, [j \in ProcessedChoices(completion) |-> completion.choices[j]])

InitializedBefore(k) ==
  \E j \in 1..(k - 1) : manager_log[j].call = "initialize"

GetCalls == { k \in DOMAIN manager_log : manager_log[k].call = "get_instance" }

C19_InitializationOrder ==
  /\ \A k \in GetCalls :
       IF InitializedBefore(k)
       THEN ~manager_log[k].raised /\ manager_log[k].returned # 0
       ELSE manager_log[k].raised
  /\ \A j, k \in GetCalls :
       (InitializedBefore(j) /\ InitializedBefore(k)) =>
         manager_log[j].returned = manager_log[k].returned

(***************************************************************************)
(* C20. Missing tenant header: on every route that calls                   *)
(* extract_compound_id outside a swallowing handler, a request whose       *)
(* X-Compound-ID header is absent or empty is answered with status 400 and *)
(* error code MISSING_COMPOUND_ID, and no database read, no database write *)
(* and no upload is performed for it.                                      *)
(***************************************************************************)
HeaderMissing == header = NoneId \/ header = ""

C20_MissingTenantHeader ==
  (endpoint \in ScopedEndpoints /\ HeaderMissing) =>
    /\ db_reads = 0 /\ db_writes = 0 /\ uploads = 0 /\ searches = 0
    /\ http_pc \in {"handling", "api_error", "responded"}
    /\ http_pc = "handling" => position = 1 /\ ENABLED ExtractCompoundId
    /\ http_pc = "api_error" => ENABLED handle_api_error
    /\ http_pc = "responded" =>
         response = [status |-> 400, code |-> "MISSING_COMPOUND_ID"]

\* an upload with a valid file and an empty header has been answered
C20_Witness ==
  /\ endpoint = "index_documents"
  /\ header = ""
  /\ body = "valid"
  /\ http_pc = "responded"
  /\ response.status = 400

(***************************************************************************)
(* C18. Index-name binding: for every identifier the document table        *)
(* assigns on upload, the index name a search of that identifier queries   *)
(* is the name of the index the indexing pipeline created for it and the   *)
(* name it recorded in the document's row.                                 *)
(***************************************************************************)
C18_IndexNameBinding ==
  queried_index # <<>> =>
    /\ created_index # <<>> => queried_index = created_index
    /\ recorded_index # <<>> => queried_index = recorded_index

\* a document with a three-digit id, indexed, recorded and searched
C18_Witness ==
  /\ inserted_id > 99
  /\ indexing_pc = "recorded"
  /\ queried_index # <<>>
  /\ recorded_index = queried_index
  /\ Len(queried_index) = 13

(***************************************************************************)
(* C29. Source-map key validity: in every outcome of search_documents each *)
(* key of the source map is "{document_id}_{K}" for a searched document    *)
(* identifier, a marker [docK] of an answer text of that document and a K  *)
(* between 1 and the length of that answer's citation list; a marker with  *)
(* K = 0 or K beyond the citation list writes no entry, and a text whose   *)
(* markers all point outside its citation list still contributes.          *)
(***************************************************************************)
\* the K of every [docK] marker of a choice
MarkerNumbers(choice) ==
  { MarkerNumber(choice.content[i]) :
      i \in { k \in DOMAIN choice.content : choice.content[k] \in Markers } }

\* the processed choices with citations that write key
WritersOf(key) ==
  { p \in Processed :
      /\ HasCitations(ChoiceAt(p))
      /\ \E K \in MarkerNumbers(ChoiceAt(p)) :
           /\ 1 <= K /\ K <= Len(ChoiceAt(p).citations)
           /\ key = DocIdAt(p) \o "_" \o ToString(K) }

C29_SourceKeyValidity ==
  Returned =>
    /\ \A key \in DOMAIN result.sources :
         \E p \in WritersOf(key) : DocIdAt(p) \in Range(doc_ids)
    /\ \A p \in Processed :
         (Contributes(ChoiceAt(p)) /\ ValidNumbers(ChoiceAt(p)) = {}) =>
           Occurs(Trimmed(ChoiceAt(p).content), result.answer)

\* the only answer cites [doc0] and [doc2] against one citation: its text is
\* the answer returned and the source map is empty
C29_Witness ==
  /\ Returned
  /\ Len(all_results) = 1
  /\ \E p \in Processed :
       /\ MarkerNumbers(ChoiceAt(p)) = {0, 2}
       /\ Len(ChoiceAt(p).citations) = 1
       /\ result.answer = ChoiceAt(p).content
  /\ result.sources = EmptyMap

(***************************************************************************)
(* C23. Result collection under concurrency: in every interleaving of the  *)
(* worker threads of one search, a call that returned a payload is in the  *)
(* collected results exactly once from the moment it is collected, a call  *)
(* that failed is never in them, and every collected result carries the    *)
(* document identifier its call was submitted with; when search_documents  *)
(* returns, every call has been collected.                                 *)
(***************************************************************************)
\* the collected calls whose future holds the tuple v with a payload
CollectedAs(v) ==
  { i \in DOMAIN status :
      /\ status[i] = "collected"
      /\ futures[i] = v
      /\ keeps(v[2]) }

Copies(v) == { k \in DOMAIN all_results : all_results[k] = v }

C23_CollectedExactlyOnce ==
  /\ \A i \in DOMAIN status :
       (status[i] = "collected" /\ keeps(futures[i][2])) =>
         /\ futures[i][1] = doc_ids[i]
         /\ Cardinality(Copies(futures[i])) = Cardinality(CollectedAs(futures[i]))
  /\ \A k \in DOMAIN all_results :
       /\ keeps(all_results[k][2])
       /\ CollectedAs(all_results[k]) # {}
  /\ Returned => \A i \in DOMAIN status : status[i] = "collected"

\* three calls finished in another order than they were submitted: the
\* second failed, the third was collected before the first
C23_Witness ==
  /\ Returned
  /\ Len(doc_ids) = 3
  /\ Failed(2)
  /\ Len(all_results) = 2
  /\ all_results[1][1] = doc_ids[3]
  /\ all_results[2][1] = doc_ids[1]

(***************************************************************************)
(* C22. Hung call: when one per-document call never returns, the calls for *)
(* all other identifiers of the request are still started, finish and are  *)
(* collected, and search_documents never returns: it stays in the fan-out  *)
(* with no result.                                                         *)
(***************************************************************************)
OthersCompleted ==
  \A j \in DOMAIN status :
    status[j] # "hung" =>
      /\ status[j] = "collected"
      /\ calls[j] = 1

C22_HungCall ==
  /\ [](HungCall => (pc = "fanout" /\ result = NoResult))
  /\ HungCall ~> [](HungCall /\ OthersCompleted)

\* the first call of the wide request hangs; the other calls, more than the
\* pool has threads left, have all been collected
C22_Witness ==
  /\ pc = "fanout"
  /\ Len(doc_ids) > 5
  /\ status[1] = "hung"
  /\ OthersCompleted

(***************************************************************************)
(* C21. Document status ownership: once upload has created the row, every  *)
(* step that changes the value of its status column is a step of           *)
(* check_indexer_status, which records the write; the UPDATE of            *)
(* trigger_indexer stores the value the row already has, and a search of   *)
(* the document leaves the column and its record of writes alone.          *)
(***************************************************************************)
RowExists == doc_status # NoneId

PollerWrote ==
  /\ indexing_pc = "polling"
  /\ status_writes' =
       Append(status_writes, StatusWrite("check_indexer_status", doc_status'))

SearchStepTaken == queried_index' # queried_index

C21_StatusOwnership ==
  [][ /\ (RowExists /\ doc_status' # doc_status) => PollerWrote
      /\ SearchStepTaken => (doc_status' = doc_status /\ status_writes' = status_writes)
    ]_vars

\* the document was searched while it was being indexed and is now indexed:
\* trigger_indexer wrote 'processing' over 'processing', the poller 'indexed'
C21_Witness ==
  /\ doc_status = "indexed"
  /\ queried_index # <<>>
  /\ status_writes = << StatusWrite("trigger_indexer", "processing"),
                        StatusWrite("check_indexer_status", "indexed") >>

(***************************************************************************)
(* C25. Poller termination: a check_indexer_status run makes at most       *)
(* max_retries (12) polls, can always take its next step until it has      *)
(* ended and none after; it writes at most one status, and when it ends    *)
(* with no UPDATE of its own having raised it has written exactly one:     *)
(* the status of the first poll that showed a decisive last result, at     *)
(* that poll, or 'timeout' after the twelfth poll when no poll showed one. *)
(***************************************************************************)
PollerWrites == SelectSeq(status_writes, LAMBDA w : w.by = "check_indexer_status")

PollerCanStep ==
  \/ ENABLED (\E seen \in PollOutcomes, written, rerun \in BOOLEAN :
                Poll(seen, written, rerun))
  \/ ENABLED (\E written \in BOOLEAN : Timeout(written))

PollerEnded == indexing_pc \in {"finished", "poller_died"}

C25_PollerTermination ==
  /\ polls <= max_retries
  /\ Len(PollerWrites) <= 1
  /\ indexing_pc = "polling" => PollerCanStep
  /\ PollerEnded => ~PollerCanStep
  /\ (indexing_pc = "finished" /\ ~write_failed) =>
       /\ Len(PollerWrites) = 1
       /\ doc_status = PollerWrites[1].value
       /\ IF first_decisive = NoPoll
          THEN /\ polls = max_retries
               /\ doc_status = "timeout"
          ELSE /\ polls = first_decisive.poll
               /\ doc_status \in {"indexed", "warning", "failed"}
               /\ first_decisive.saw = "success" <=> doc_status = "indexed"
               /\ first_decisive.saw = "failed" <=> doc_status = "failed"

\* twelve polls, the last of which raised, none decisive: 'timeout' written
C25_Witness ==
  /\ indexing_pc = "finished"
  /\ ~write_failed
  /\ polls = max_retries
  /\ observed = "raised"
  /\ first_decisive = NoPoll
  /\ doc_status = "timeout"

(***************************************************************************)
(* C26. Poller status mapping: the status is 'indexed' only when the poll  *)
(* that wrote it showed 'success', 'warning' only when it showed           *)
(* 'transientFailure' or 'warning', 'failed' only when it showed 'failed'; *)
(* when the request to run the indexer again after a success fails, the    *)
(* status is 'indexed' all the same.                                       *)
(***************************************************************************)
\* 'indexed' was written and the only indexer run is trigger_indexer's
RerunFailed ==
  /\ indexing_pc = "finished"
  /\ StatusWrite("check_indexer_status", "indexed") \in Range(status_writes)
  /\ indexer_runs = 1

C26_StatusMapping ==
  /\ doc_status = "indexed" => observed = "success"
  /\ doc_status = "warning" => observed \in {"transientFailure", "warning"}
  /\ doc_status = "failed" => observed = "failed"
  /\ doc_status \in {"indexed", "warning", "failed"} => indexing_pc = "finished"
  /\ RerunFailed => doc_status = "indexed"

\* a success at the third poll, written after an earlier UPDATE had raised,
\* and the request to run the indexer again failed
C26_Witness ==
  /\ RerunFailed
  /\ doc_status = "indexed"
  /\ polls = 3
  /\ write_failed

(***************************************************************************)
(* C27. Stuck documents: check_indexer_status runs only after              *)
(* trigger_indexer has recorded the index name with status 'processing'    *)
(* and its request to run the indexer went through; when the search index, *)
(* the data source or the indexer could not be created, no poller ever     *)
(* runs and the status is 'processing' in every later state.               *)
(***************************************************************************)
PollerStarted == indexing_pc \in {"polling", "finished", "poller_died"} \/ polls > 0

CreationFailed == indexing_pc \in {"no_index", "no_data_source", "no_indexer"}

C27_StuckDocuments ==
  /\ [](PollerStarted =>
          /\ recorded_index # <<>>
          /\ status_writes # <<>>
          /\ Head(status_writes) = StatusWrite("trigger_indexer", "processing")
          /\ indexer_runs >= 1)
  /\ [](CreationFailed =>
          /\ doc_status = "processing"
          /\ status_writes = <<>>
          /\ polls = 0)
  /\ [][CreationFailed =>
          /\ indexing_pc' = indexing_pc
          /\ doc_status' = "processing"
          /\ polls' = 0]_vars

\* the data source could not be created; the document has since been
\* searched and is still 'processing'
C27_Witness ==
  /\ indexing_pc = "no_data_source"
  /\ queried_index # <<>>
  /\ doc_status = "processing"
  /\ created_index # <<>>
  /\ recorded_index = <<>>

(***************************************************************************)
(* C24. Non-empty question: search_documents of open_ai_azure is called    *)
(* only for a request whose query is present and not empty; a search route *)
(* answers a request without a query with status 400.                      *)
(***************************************************************************)
SearchEndpoints == { "search_documents", "search_department_documents" }

C24_NonEmptyQuestion ==
  /\ searches > 0 => body = "valid"
  /\ (/\ endpoint \in SearchEndpoints
      /\ body \in {"absent", "invalid"}
      /\ http_pc = "responded") => response.status = 400

(***************************************************************************)
(* C28. Duplicate upload rejection: whatever the interleaving of the       *)
(* index_documents requests, the document table never holds two rows with  *)
(* the same compound and sha256, and a request answered 409                *)
(* DUPLICATE_DOCUMENT has created no row, no blob and no indexer.          *)
(***************************************************************************)
C28_DuplicateRejection ==
  /\ \A file \in Files : Cardinality(RowsOf(file)) <= 1
  /\ \A r \in Requests :
       intake_response[r].status = 409 =>
         /\ intake_response[r].code = "DUPLICATE_DOCUMENT"
         /\ RowsOf(intake_file[r]) # {}
         /\ blobs[r] = 0
         /\ triggers[r] = 0

(***************************************************************************)
(* C30. Read-only SQL gate: search_database hands a generated SQL text to  *)
(* the database only if the text, lowercased and without its outer         *)
(* whitespace, starts with "select" and none of its whitespace-separated   *)
(* tokens is one of the dangerous keywords; every other generated text is  *)
(* answered 403 and not handed to the database.                            *)
(***************************************************************************)
Lowered(text) == [i \in DOMAIN text |-> LowerChar(text[i])]

Blank(text, i) == text[i] \in {" ", "\n", "\t"}

\* the first characters that are not whitespace spell "select"
StartsWithSelect(text) ==
  \E a \in DOMAIN text :
    /\ \A i \in 1..(a - 1) : Blank(text, i)
    /\ a + 5 <= Len(text)
    /\ SubSeq(Lowered(text), a, a + 5) = <<"s", "e", "l", "e", "c", "t">>

\* word stands in text between whitespace or the ends of the text
IsToken(word, text) ==
  \E a \in DOMAIN text :
    /\ a + Len(word) - 1 <= Len(text)
    /\ SubSeq(Lowered(text), a, a + Len(word) - 1) = word
    /\ a = 1 \/ Blank(text, a - 1)
    /\ a + Len(word) - 1 = Len(text) \/ Blank(text, a + Len(word))

Allowed(text) ==
  /\ StartsWithSelect(text)
  /\ \A k \in DOMAIN dangerous_keywords : ~IsToken(dangerous_keywords[k], text)

C30_ReadOnlyGate ==
  /\ \A k \in DOMAIN executed :
       /\ executed[k] = generated_sql
       /\ Allowed(executed[k])
  /\ Len(executed) <= 1
  /\ (gate_pc = "responded" /\ ~Allowed(generated_sql)) =>
       /\ gate_response = 403
       /\ executed = <<>>

\* "SELECT;Drop" was executed: the text starts with "select" in capitals and
\* "drop" is not a token of its own
C30_Witness ==
  /\ gate_pc = "responded"
  /\ gate_response = 200
  /\ executed = << <<"S", "E", "L", "E", "C", "T", ";", "D", "r", "o", "p">> >>

=============================================================================
